---- MODULE Spec2Model ----
(***************************************************************************)
(* A model of py-colour (src/colour.py): the Colour class, its setters,    *)
(* and the static conversion functions it is built on.                     *)
(*                                                                         *)
(* Numbers.  The program computes with Python floats.  The model computes  *)
(* with exact rationals <<n, d>> (d > 0, in lowest terms), so "equal" in   *)
(* the model is "equal up to float rounding" in the program.  The literal  *)
(* constants of colorsys.yiq_to_rgb (0.9468822170900693, ...) are the      *)
(* 17-digit roundings of the fractions named in the comment above them in  *)
(* colorsys; the model uses those fractions.                               *)
(***************************************************************************)
EXTENDS Integers, Sequences, FiniteSets, TLC

\* ------------------------------------------------------------------------
\* Float arithmetic, as exact rational arithmetic
\* ------------------------------------------------------------------------

Abs(n) == IF n < 0 THEN -n ELSE n

RECURSIVE GCD(_, _)
GCD(a, b) == IF b = 0 THEN a ELSE GCD(b, a % b)

\* n/d with the common factor g taken out and a positive denominator
Lowest(n, d, g) ==
    IF d < 0 THEN <<-(n \div g), -(d \div g)>> ELSE <<n \div g, d \div g>>

\* n/d in lowest terms with a positive denominator (d # 0).
Rat(n, d) == Lowest(n, d, GCD(Abs(n), Abs(d)))

\* An integer as a float.
R(n) == <<n, 1>>

Zero == R(0)
One == R(1)

\* Python's None, where a float is expected (no float has denominator 0).
None == <<0, 0>>
IsNone(x) == x[2] = 0

RNeg(x) == <<-x[1], x[2]>>

\* x + y over the least common denominator, g dividing both denominators
Sum(x, y, g) ==
    Rat(x[1] * (y[2] \div g) + y[1] * (x[2] \div g), x[2] * (y[2] \div g))

RAdd(x, y) == Sum(x, y, GCD(x[2], y[2]))

RSub(x, y) == RAdd(x, RNeg(y))

\* Both factors are in lowest terms, and so is the product once the common
\* factors g1 of x[1] and y[2], and g2 of y[1] and x[2], are taken out.
Product(x, y, g1, g2) ==
    <<(x[1] \div g1) * (y[1] \div g2), (x[2] \div g2) * (y[2] \div g1)>>

RMul(x, y) == Product(x, y, GCD(Abs(x[1]), y[2]), GCD(Abs(y[1]), x[2]))

\* x / y for y # 0 (the callers raise ZeroDivisionError themselves).
RDiv(x, y) ==
    RMul(x, IF y[1] < 0 THEN <<-y[2], -y[1]>> ELSE <<y[2], y[1]>>)

RLt(x, y) == x[1] * y[2] < y[1] * x[2]
RLe(x, y) == x[1] * y[2] <= y[1] * x[2]
RGt(x, y) == RLt(y, x)
RGe(x, y) == RLe(y, x)

RMax(x, y) == IF RLt(x, y) THEN y ELSE x
RMin(x, y) == IF RLt(y, x) THEN y ELSE x

\* math.floor / int() of a non-negative float.
RFloor(x) == x[1] \div x[2]

\* Python's float %: the result has the sign of the divisor m (m # 0).
RMod(x, m) == RSub(x, RMul(m, R(RFloor(RDiv(x, m)))))

\* A decimal literal with two places, such as 0.59.
Cent(n) == Rat(n, 100)

\* The least common denominator of a triple of floats.
LCM(a, b) == (a \div GCD(a, b)) * b
Den(t) == LCM(LCM(t[1][2], t[2][2]), t[3][2])

\* ------------------------------------------------------------------------
\* Errors: a function that raises yields Raised instead of a tuple
\* ------------------------------------------------------------------------

Raised == <<>>
IsRaised(t) == Len(t) = 0

\* "for i in rgb: if i < 0 or i > 1: raise"
InUnit(x) == RGe(x, Zero) /\ RLe(x, One)

\* ------------------------------------------------------------------------
\* colorsys (the standard library functions colour.py calls)
\* ------------------------------------------------------------------------

\* i and q of rgb_to_yiq, once y is known
IQ(r, b, y) ==
    <<y,
      RSub(RMul(Cent(74), RSub(r, y)), RMul(Cent(27), RSub(b, y))),
      RAdd(RMul(Cent(48), RSub(r, y)), RMul(Cent(41), RSub(b, y)))>>

\* (the weights 0.299, 0.587, 0.114 in place of 0.30, 0.59, 0.11)
rgb_to_yiq_601(r, g, b) ==
    IQ(r, b, RAdd(RAdd(RMul(Rat(299, 1000), r), RMul(Rat(587, 1000), g)),
                  RMul(Rat(114, 1000), b)))

rgb_to_yiq(r, g, b) ==
    IQ(r, b, RAdd(RAdd(RMul(Cent(30), r), RMul(Cent(59), g)), RMul(Cent(11), b)))

\* 0.74*0.41 + 0.27*0.48, the determinant in colorsys's comment, times 10000
YiqDet == 74 * 41 + 27 * 48

\* (the clamp of yiq_to_rgb left out)
Unclamped(x) == x

Clamp01(x) == IF RLt(x, Zero) THEN Zero ELSE IF RGt(x, One) THEN One ELSE x

\* r = y + dr, b = y + db, g = y - (0.30*dr + 0.11*db) / 0.59, each clamped
FromYiq(y, dr, db) ==
    <<Clamp01(RAdd(y, dr)),
      Clamp01(RSub(y, RDiv(RAdd(RMul(R(30), dr), RMul(R(11), db)), R(59)))),
      Clamp01(RAdd(y, db))>>

\* r - y = (0.27*q + 0.41*i) / det
\* b - y = (0.74*q - 0.48*i) / det
yiq_to_rgb(y, i, q) ==
    FromYiq(y,
            RDiv(RAdd(RMul(R(2700), q), RMul(R(4100), i)), R(YiqDet)),
            RDiv(RSub(RMul(R(7400), q), RMul(R(4800), i)), R(YiqDet)))

\* "rc = (maxc-r) / rangec", and gc and bc likewise
Chan(x, maxc, rangec) == RDiv(RSub(maxc, x), rangec)

\* The hue computation shared by rgb_to_hls and rgb_to_hsv (maxc # minc).
HueOf(r, g, b, maxc, rangec) ==
    RMod(RDiv(IF r = maxc
              THEN RSub(Chan(b, maxc, rangec), Chan(g, maxc, rangec))
              ELSE IF g = maxc
              THEN RSub(RAdd(R(2), Chan(r, maxc, rangec)), Chan(b, maxc, rangec))
              ELSE RSub(RAdd(R(4), Chan(g, maxc, rangec)), Chan(r, maxc, rangec)),
              R(6)),
         One)

\* rgb_to_hsv once maxc and minc are known
HsvOf(r, g, b, maxc, minc) ==
    IF minc = maxc THEN <<Zero, Zero, maxc>>
    ELSE <<HueOf(r, g, b, maxc, RSub(maxc, minc)),
           RDiv(RSub(maxc, minc), maxc), maxc>>

rgb_to_hsv(r, g, b) ==
    HsvOf(r, g, b, RMax(RMax(r, g), b), RMin(RMin(r, g), b))

\* rgb_to_hls once maxc and minc are known, l being (maxc+minc)/2
HlsOf(r, g, b, maxc, minc, l) ==
    IF minc = maxc THEN <<Zero, l, Zero>>
    ELSE <<HueOf(r, g, b, maxc, RSub(maxc, minc)), l,
           IF RLe(l, Rat(1, 2)) THEN RDiv(RSub(maxc, minc), RAdd(maxc, minc))
           ELSE RDiv(RSub(maxc, minc), RSub(RSub(R(2), maxc), minc))>>

rgb_to_hls(r, g, b) ==
    HlsOf(r, g, b, RMax(RMax(r, g), b), RMin(RMin(r, g), b),
          RDiv(RAdd(RMax(RMax(r, g), b), RMin(RMin(r, g), b)), R(2)))

\* The six sectors of hsv_to_rgb, k being i % 6
Sector(v, k, p, q, t) ==
    CASE k = 0 -> <<v, t, p>>
      [] k = 1 -> <<q, v, p>>
      [] k = 2 -> <<p, v, t>>
      [] k = 3 -> <<p, q, v>>
      [] k = 4 -> <<t, p, v>>
      [] k = 5 -> <<v, p, q>>

\* hsv_to_rgb for s # 0, i being int(h*6.0) and f being h*6.0 - i
Sectored(s, v, i, f) ==
    Sector(v, i % 6, RMul(v, RSub(One, s)), RMul(v, RSub(One, RMul(s, f))),
           RMul(v, RSub(One, RMul(s, RSub(One, f)))))

hsv_to_rgb(h, s, v) ==
    IF s = Zero THEN <<v, v, v>>
    ELSE Sectored(s, v, RFloor(RMul(h, R(6))),
                  RSub(RMul(h, R(6)), R(RFloor(RMul(h, R(6))))))

\* colorsys._v once hue is taken modulo 1
Vh(m1, m2, h) ==
    IF RLt(h, Rat(1, 6)) THEN RAdd(m1, RMul(RMul(RSub(m2, m1), h), R(6)))
    ELSE IF RLt(h, Rat(1, 2)) THEN m2
    ELSE IF RLt(h, Rat(2, 3))
         THEN RAdd(m1, RMul(RMul(RSub(m2, m1), RSub(Rat(2, 3), h)), R(6)))
    ELSE m1

\* colorsys._v
V(m1, m2, hue) == Vh(m1, m2, RMod(hue, One))

\* hls_to_rgb for s # 0, m1 being 2.0*l - m2
FromHls(h, m1, m2) ==
    <<V(m1, m2, RAdd(h, Rat(1, 3))), V(m1, m2, h), V(m1, m2, RSub(h, Rat(1, 3)))>>

\* "m2 = l * (1.0+s)" or "m2 = l+s-(l*s)"
M2(l, s) ==
    IF RLe(l, Rat(1, 2)) THEN RMul(l, RAdd(One, s))
    ELSE RSub(RAdd(l, s), RMul(l, s))

hls_to_rgb(h, l, s) ==
    IF s = Zero THEN <<l, l, l>>
    ELSE FromHls(h, RSub(RMul(R(2), l), M2(l, s)), M2(l, s))

\* ------------------------------------------------------------------------
\* Static colour conversion functions
\* ------------------------------------------------------------------------

\* "(hls[0] * 360, hls[2], hls[1])" and "(hsv[0] * 360, hsv[1], hsv[2])"
Hsl360(hls) == <<RMul(hls[1], R(360)), hls[3], hls[2]>>
Hsv360(hsv0) == <<RMul(hsv0[1], R(360)), hsv0[2], hsv0[3]>>

_rgbtohsx(ishsl, rgb) ==
    IF Len(rgb) # 3 THEN Raised
    ELSE IF \E k \in 1..3 : ~InUnit(rgb[k]) THEN Raised
    ELSE IF ishsl THEN Hsl360(rgb_to_hls(rgb[1], rgb[2], rgb[3]))
    ELSE Hsv360(rgb_to_hsv(rgb[1], rgb[2], rgb[3]))

rgbtohsv(rgb) == _rgbtohsx(FALSE, rgb)

rgbtohsl(rgb) == _rgbtohsx(TRUE, rgb)

rgbtoyiq(rgb) ==
    IF Len(rgb) # 3 THEN Raised
    ELSE IF \E k \in 1..3 : ~InUnit(rgb[k]) THEN Raised
    ELSE rgb_to_yiq(rgb[1], rgb[2], rgb[3])

\* "h = h % 360", then h / 360.0 is handed on
_hsxtorgb(ishsl, hsx) ==
    IF Len(hsx) # 3 THEN Raised
    ELSE IF ~InUnit(hsx[2]) \/ ~InUnit(hsx[3]) THEN Raised
    ELSE IF ishsl
         THEN hls_to_rgb(RDiv(RMod(hsx[1], R(360)), R(360)), hsx[3], hsx[2])
    ELSE hsv_to_rgb(RDiv(RMod(hsx[1], R(360)), R(360)), hsx[2], hsx[3])

hsvtorgb(v) == _hsxtorgb(FALSE, v)

hsltorgb(v) == _hsxtorgb(TRUE, v)

yiqtorgb(yiq) ==
    IF Len(yiq) # 3 THEN Raised
    ELSE IF ~InUnit(yiq[1]) THEN Raised
    ELSE IF \E k \in 2..3 : RLt(yiq[k], R(-1)) \/ RGt(yiq[k], One) THEN Raised
    ELSE yiq_to_rgb(yiq[1], yiq[2], yiq[3])

\* ------------------------------------------------------------------------
\* Strings (sequences of one-character strings) and hexadecimal
\* ------------------------------------------------------------------------

Digits == <<"0", "1", "2", "3", "4", "5", "6", "7", "8", "9",
            "a", "b", "c", "d", "e", "f">>
Uppers == <<"A", "B", "C", "D", "E", "F", "G", "H", "I", "J", "K", "L", "M",
            "N", "O", "P", "Q", "R", "S", "T", "U", "V", "W", "X", "Y", "Z">>
Lowers == <<"a", "b", "c", "d", "e", "f", "g", "h", "i", "j", "k", "l", "m",
            "n", "o", "p", "q", "r", "s", "t", "u", "v", "w", "x", "y", "z">>

\* str.lower(), one character
LowerCh(ch) ==
    IF \E k \in 1..Len(Uppers) : Uppers[k] = ch
    THEN Lowers[CHOOSE k \in 1..Len(Uppers) : Uppers[k] = ch]
    ELSE ch

\* (a lookup that keeps the case)
lower_nothing(s) == s

lower(s) == [k \in 1..Len(s) |-> LowerCh(s[k])]

\* [0-9a-f] under re.I
IsHexDigit(ch) == \E k \in 1..Len(Digits) : Digits[k] = LowerCh(ch)
HexVal(ch) == (CHOOSE k \in 1..Len(Digits) : Digits[k] = LowerCh(ch)) - 1

\* s[a:b] of Python, 0-based, clipped to the string
Slice(s, a, b) ==
    LET lo == IF a > Len(s) THEN Len(s) ELSE a
        hi == IF b > Len(s) THEN Len(s) ELSE b
    IN  IF hi <= lo THEN <<>> ELSE SubSeq(s, lo + 1, hi)

\* "$" of re matches at the end and also before one final newline
DollarStrip(s) ==
    IF Len(s) > 0 /\ s[Len(s)] = "\n" THEN SubSeq(s, 1, Len(s) - 1) ELSE s

_validhex(string) ==
    LET s1 == DollarStrip(string)
        s2 == IF Len(s1) > 0 /\ s1[1] = "#" THEN Tail(s1) ELSE s1
    IN  /\ Len(s2) \in {3, 6}
        /\ \A k \in 1..Len(s2) : IsHexDigit(s2[k])

\* int(s, 16): surrounding whitespace is ignored; -1 stands for ValueError
RECURSIVE HexNum(_)
HexNum(s) == IF Len(s) = 0 THEN 0
             ELSE 16 * HexNum(SubSeq(s, 1, Len(s) - 1)) + HexVal(s[Len(s)])

PyInt16(s) ==
    LET d == DollarStrip(s)
    IN  IF Len(d) = 0 \/ \E k \in 1..Len(d) : ~IsHexDigit(d[k]) THEN -1
        ELSE HexNum(d)

\* The three channels of a hexadecimal string of six digits, or Raised
HexPairs(n) ==
    IF \E x \in 1..3 : n[x] < 0 THEN Raised
    ELSE [x \in 1..3 |-> Rat(n[x], 255)]

\* "if len(hex) == 3: hex = hex[0] * 2 + hex[1] * 2 + hex[2] * 2"
Doubled(h) ==
    IF Len(h) = 3 THEN <<h[1], h[1], h[2], h[2], h[3], h[3]>> ELSE h

\* "if hex[0] == '#': hex = hex[1:]"
Unhashed(hex) == IF hex[1] = "#" THEN Tail(hex) ELSE hex

hextorgb(hex) ==
    IF ~_validhex(hex) THEN Raised
    ELSE HexPairs([x \in 1..3 |->
                      PyInt16(Slice(Doubled(Unhashed(hex)), (x - 1) * 2, x * 2))])

\* round() of Python 3, to an int: the nearest integer, a tie to the even one
HalfEven(f, twice, d) ==
    IF twice < d THEN f
    ELSE IF twice > d THEN f + 1
    ELSE IF f % 2 = 0 THEN f ELSE f + 1

round(x) == HalfEven(x[1] \div x[2], 2 * (x[1] % x[2]), x[2])

\* hex(n)[2:] for n >= 0: lowercase digits, no leading zero
RECURSIVE HexDigits(_)
HexDigits(n) == IF n < 16 THEN <<Digits[n + 1]>>
                ELSE HexDigits(n \div 16) \o <<Digits[(n % 16) + 1]>>

\* str.rjust(width, fill)
RECURSIVE rjust(_, _, _)
rjust(s, width, fill) == IF Len(s) >= width THEN s
                         ELSE rjust(<<fill>> \o s, width, fill)

\* "%s%s%s" % tuple(...)
Joined(t) == t[1] \o t[2] \o t[3]

\* a variant that leaves out rjust(2, "0")
rgbtohex_unpadded(rgb, hash, allowshort, forceshort) ==
    (IF hash THEN <<"#">> ELSE <<>>) \o
        Joined([x \in 1..3 |-> HexDigits(round(RMul(rgb[x], R(255))))])

\* a variant that takes the short form whenever it is allowed
Bytes_eager(rgb, allowshort) ==
    IF allowshort
    THEN Joined([x \in 1..3 |-> HexDigits(rgb[x] \div 17)])
    ELSE Joined([x \in 1..3 |-> rjust(HexDigits(rgb[x]), 2, "0")])

\* The digits of rgbtohex once the channels are rounded to 0..255
Bytes(rgb, allowshort) ==
    IF allowshort /\ (rgb[1] % 17) + (rgb[2] % 17) + (rgb[3] % 17) = 0
    THEN Joined([x \in 1..3 |-> HexDigits(rgb[x] \div 17)])
    ELSE Joined([x \in 1..3 |-> rjust(HexDigits(rgb[x]), 2, "0")])

rgbtohex(rgb, hash, allowshort, forceshort) ==
    (IF hash THEN <<"#">> ELSE <<>>) \o
        (IF forceshort
         THEN Joined([x \in 1..3 |-> HexDigits(round(RMul(rgb[x], R(15))))])
         ELSE Bytes([x \in 1..3 |-> round(RMul(rgb[x], R(255)))], allowshort))

\* CSS3 colours, in the order of the source
CSS3 == <<
    <<<<"a","l","i","c","e","b","l","u","e">>, <<"f","0","f","8","f","f">>>>,
    <<<<"a","n","t","i","q","u","e","w","h","i","t","e">>, <<"f","a","e","b","d","7">>>>,
    <<<<"a","q","u","a">>, <<"0","0","f","f","f","f">>>>,
    <<<<"a","q","u","a","m","a","r","i","n","e">>, <<"7","f","f","f","d","4">>>>,
    <<<<"a","z","u","r","e">>, <<"f","0","f","f","f","f">>>>,
    <<<<"b","e","i","g","e">>, <<"f","5","f","5","d","c">>>>,
    <<<<"b","i","s","q","u","e">>, <<"f","f","e","4","c","4">>>>,
    <<<<"b","l","a","c","k">>, <<"0","0","0","0","0","0">>>>,
    <<<<"b","l","a","n","c","h","e","d","a","l","m","o","n","d">>, <<"f","f","e","b","c","d">>>>,
    <<<<"b","l","u","e">>, <<"0","0","0","0","f","f">>>>,
    <<<<"b","l","u","e","v","i","o","l","e","t">>, <<"8","a","2","b","e","2">>>>,
    <<<<"b","r","o","w","n">>, <<"a","5","2","a","2","a">>>>,
    <<<<"b","u","r","l","y","w","o","o","d">>, <<"d","e","b","8","8","7">>>>,
    <<<<"c","a","d","e","t","b","l","u","e">>, <<"5","f","9","e","a","0">>>>,
    <<<<"c","h","a","r","t","r","e","u","s","e">>, <<"7","f","f","f","0","0">>>>,
    <<<<"c","h","o","c","o","l","a","t","e">>, <<"d","2","6","9","1","e">>>>,
    <<<<"c","o","r","a","l">>, <<"f","f","7","f","5","0">>>>,
    <<<<"c","o","r","n","f","l","o","w","e","r","b","l","u","e">>, <<"6","4","9","5","e","d">>>>,
    <<<<"c","o","r","n","s","i","l","k">>, <<"f","f","f","8","d","c">>>>,
    <<<<"c","r","i","m","s","o","n">>, <<"d","c","1","4","3","c">>>>,
    <<<<"c","y","a","n">>, <<"0","0","f","f","f","f">>>>,
    <<<<"d","a","r","k","b","l","u","e">>, <<"0","0","0","0","8","b">>>>,
    <<<<"d","a","r","k","c","y","a","n">>, <<"0","0","8","b","8","b">>>>,
    <<<<"d","a","r","k","g","o","l","d","e","n","r","o","d">>, <<"b","8","8","6","0","b">>>>,
    <<<<"d","a","r","k","g","r","a","y">>, <<"a","9","a","9","a","9">>>>,
    <<<<"d","a","r","k","g","r","e","e","n">>, <<"0","0","6","4","0","0">>>>,
    <<<<"d","a","r","k","g","r","e","y">>, <<"a","9","a","9","a","9">>>>,
    <<<<"d","a","r","k","k","h","a","k","i">>, <<"b","d","b","7","6","b">>>>,
    <<<<"d","a","r","k","m","a","g","e","n","t","a">>, <<"8","b","0","0","8","b">>>>,
    <<<<"d","a","r","k","o","l","i","v","e","g","r","e","e","n">>, <<"5","5","6","b","2","f">>>>,
    <<<<"d","a","r","k","o","r","a","n","g","e">>, <<"f","f","8","c","0","0">>>>,
    <<<<"d","a","r","k","o","r","c","h","i","d">>, <<"9","9","3","2","c","c">>>>,
    <<<<"d","a","r","k","r","e","d">>, <<"8","b","0","0","0","0">>>>,
    <<<<"d","a","r","k","s","a","l","m","o","n">>, <<"e","9","9","6","7","a">>>>,
    <<<<"d","a","r","k","s","e","a","g","r","e","e","n">>, <<"8","f","b","c","8","f">>>>,
    <<<<"d","a","r","k","s","l","a","t","e","b","l","u","e">>, <<"4","8","3","d","8","b">>>>,
    <<<<"d","a","r","k","s","l","a","t","e","g","r","a","y">>, <<"2","f","4","f","4","f">>>>,
    <<<<"d","a","r","k","s","l","a","t","e","g","r","e","y">>, <<"2","f","4","f","4","f">>>>,
    <<<<"d","a","r","k","t","u","r","q","u","o","i","s","e">>, <<"0","0","c","e","d","1">>>>,
    <<<<"d","a","r","k","v","i","o","l","e","t">>, <<"9","4","0","0","d","3">>>>,
    <<<<"d","e","e","p","p","i","n","k">>, <<"f","f","1","4","9","3">>>>,
    <<<<"d","e","e","p","s","k","y","b","l","u","e">>, <<"0","0","b","f","f","f">>>>,
    <<<<"d","i","m","g","r","a","y">>, <<"6","9","6","9","6","9">>>>,
    <<<<"d","i","m","g","r","e","y">>, <<"6","9","6","9","6","9">>>>,
    <<<<"d","o","d","g","e","r","b","l","u","e">>, <<"1","e","9","0","f","f">>>>,
    <<<<"f","i","r","e","b","r","i","c","k">>, <<"b","2","2","2","2","2">>>>,
    <<<<"f","l","o","r","a","l","w","h","i","t","e">>, <<"f","f","f","a","f","0">>>>,
    <<<<"f","o","r","e","s","t","g","r","e","e","n">>, <<"2","2","8","b","2","2">>>>,
    <<<<"f","u","c","h","s","i","a">>, <<"f","f","0","0","f","f">>>>,
    <<<<"g","a","i","n","s","b","o","r","o">>, <<"d","c","d","c","d","c">>>>,
    <<<<"g","h","o","s","t","w","h","i","t","e">>, <<"f","8","f","8","f","f">>>>,
    <<<<"g","o","l","d">>, <<"f","f","d","7","0","0">>>>,
    <<<<"g","o","l","d","e","n","r","o","d">>, <<"d","a","a","5","2","0">>>>,
    <<<<"g","r","a","y">>, <<"8","0","8","0","8","0">>>>,
    <<<<"g","r","e","e","n">>, <<"0","0","8","0","0","0">>>>,
    <<<<"g","r","e","e","n","y","e","l","l","o","w">>, <<"a","d","f","f","2","f">>>>,
    <<<<"g","r","e","y">>, <<"8","0","8","0","8","0">>>>,
    <<<<"h","o","n","e","y","d","e","w">>, <<"f","0","f","f","f","0">>>>,
    <<<<"h","o","t","p","i","n","k">>, <<"f","f","6","9","b","4">>>>,
    <<<<"i","n","d","i","a","n","r","e","d">>, <<"c","d","5","c","5","c">>>>,
    <<<<"i","n","d","i","g","o">>, <<"4","b","0","0","8","2">>>>,
    <<<<"i","v","o","r","y">>, <<"f","f","f","f","f","0">>>>,
    <<<<"k","h","a","k","i">>, <<"f","0","e","6","8","c">>>>,
    <<<<"l","a","v","e","n","d","e","r">>, <<"e","6","e","6","f","a">>>>,
    <<<<"l","a","v","e","n","d","e","r","b","l","u","s","h">>, <<"f","f","f","0","f","5">>>>,
    <<<<"l","a","w","n","g","r","e","e","n">>, <<"7","c","f","c","0","0">>>>,
    <<<<"l","e","m","o","n","c","h","i","f","f","o","n">>, <<"f","f","f","a","c","d">>>>,
    <<<<"l","i","g","h","t","b","l","u","e">>, <<"a","d","d","8","e","6">>>>,
    <<<<"l","i","g","h","t","c","o","r","a","l">>, <<"f","0","8","0","8","0">>>>,
    <<<<"l","i","g","h","t","c","y","a","n">>, <<"e","0","f","f","f","f">>>>,
    <<<<"l","i","g","h","t","g","o","l","d","e","n","r","o","d","y","e","l","l","o","w">>, <<"f","a","f","a","d","2">>>>,
    <<<<"l","i","g","h","t","g","r","a","y">>, <<"d","3","d","3","d","3">>>>,
    <<<<"l","i","g","h","t","g","r","e","e","n">>, <<"9","0","e","e","9","0">>>>,
    <<<<"l","i","g","h","t","g","r","e","y">>, <<"d","3","d","3","d","3">>>>,
    <<<<"l","i","g","h","t","p","i","n","k">>, <<"f","f","b","6","c","1">>>>,
    <<<<"l","i","g","h","t","s","a","l","m","o","n">>, <<"f","f","a","0","7","a">>>>,
    <<<<"l","i","g","h","t","s","e","a","g","r","e","e","n">>, <<"2","0","b","2","a","a">>>>,
    <<<<"l","i","g","h","t","s","k","y","b","l","u","e">>, <<"8","7","c","e","f","a">>>>,
    <<<<"l","i","g","h","t","s","l","a","t","e","g","r","a","y">>, <<"7","7","8","8","9","9">>>>,
    <<<<"l","i","g","h","t","s","l","a","t","e","g","r","e","y">>, <<"7","7","8","8","9","9">>>>,
    <<<<"l","i","g","h","t","s","t","e","e","l","b","l","u","e">>, <<"b","0","c","4","d","e">>>>,
    <<<<"l","i","g","h","t","y","e","l","l","o","w">>, <<"f","f","f","f","e","0">>>>,
    <<<<"l","i","m","e">>, <<"0","0","f","f","0","0">>>>,
    <<<<"l","i","m","e","g","r","e","e","n">>, <<"3","2","c","d","3","2">>>>,
    <<<<"l","i","n","e","n">>, <<"f","a","f","0","e","6">>>>,
    <<<<"m","a","g","e","n","t","a">>, <<"f","f","0","0","f","f">>>>,
    <<<<"m","a","r","o","o","n">>, <<"8","0","0","0","0","0">>>>,
    <<<<"m","e","d","i","u","m","a","q","u","a","m","a","r","i","n","e">>, <<"6","6","c","d","a","a">>>>,
    <<<<"m","e","d","i","u","m","b","l","u","e">>, <<"0","0","0","0","c","d">>>>,
    <<<<"m","e","d","i","u","m","o","r","c","h","i","d">>, <<"b","a","5","5","d","3">>>>,
    <<<<"m","e","d","i","u","m","p","u","r","p","l","e">>, <<"9","3","7","0","d","b">>>>,
    <<<<"m","e","d","i","u","m","s","e","a","g","r","e","e","n">>, <<"3","c","b","3","7","1">>>>,
    <<<<"m","e","d","i","u","m","s","l","a","t","e","b","l","u","e">>, <<"7","b","6","8","e","e">>>>,
    <<<<"m","e","d","i","u","m","s","p","r","i","n","g","g","r","e","e","n">>, <<"0","0","f","a","9","a">>>>,
    <<<<"m","e","d","i","u","m","t","u","r","q","u","o","i","s","e">>, <<"4","8","d","1","c","c">>>>,
    <<<<"m","e","d","i","u","m","v","i","o","l","e","t","r","e","d">>, <<"c","7","1","5","8","5">>>>,
    <<<<"m","i","d","n","i","g","h","t","b","l","u","e">>, <<"1","9","1","9","7","0">>>>,
    <<<<"m","i","n","t","c","r","e","a","m">>, <<"f","5","f","f","f","a">>>>,
    <<<<"m","i","s","t","y","r","o","s","e">>, <<"f","f","e","4","e","1">>>>,
    <<<<"m","o","c","c","a","s","i","n">>, <<"f","f","e","4","b","5">>>>,
    <<<<"n","a","v","a","j","o","w","h","i","t","e">>, <<"f","f","d","e","a","d">>>>,
    <<<<"n","a","v","y">>, <<"0","0","0","0","8","0">>>>,
    <<<<"o","l","d","l","a","c","e">>, <<"f","d","f","5","e","6">>>>,
    <<<<"o","l","i","v","e">>, <<"8","0","8","0","0","0">>>>,
    <<<<"o","l","i","v","e","d","r","a","b">>, <<"6","b","8","e","2","3">>>>,
    <<<<"o","r","a","n","g","e">>, <<"f","f","a","5","0","0">>>>,
    <<<<"o","r","a","n","g","e","r","e","d">>, <<"f","f","4","5","0","0">>>>,
    <<<<"o","r","c","h","i","d">>, <<"d","a","7","0","d","6">>>>,
    <<<<"p","a","l","e","g","o","l","d","e","n","r","o","d">>, <<"e","e","e","8","a","a">>>>,
    <<<<"p","a","l","e","g","r","e","e","n">>, <<"9","8","f","b","9","8">>>>,
    <<<<"p","a","l","e","t","u","r","q","u","o","i","s","e">>, <<"a","f","e","e","e","e">>>>,
    <<<<"p","a","l","e","v","i","o","l","e","t","r","e","d">>, <<"d","b","7","0","9","3">>>>,
    <<<<"p","a","p","a","y","a","w","h","i","p">>, <<"f","f","e","f","d","5">>>>,
    <<<<"p","e","a","c","h","p","u","f","f">>, <<"f","f","d","a","b","9">>>>,
    <<<<"p","e","r","u">>, <<"c","d","8","5","3","f">>>>,
    <<<<"p","i","n","k">>, <<"f","f","c","0","c","b">>>>,
    <<<<"p","l","u","m">>, <<"d","d","a","0","d","d">>>>,
    <<<<"p","o","w","d","e","r","b","l","u","e">>, <<"b","0","e","0","e","6">>>>,
    <<<<"p","u","r","p","l","e">>, <<"8","0","0","0","8","0">>>>,
    <<<<"r","e","d">>, <<"f","f","0","0","0","0">>>>,
    <<<<"r","o","s","y","b","r","o","w","n">>, <<"b","c","8","f","8","f">>>>,
    <<<<"r","o","y","a","l","b","l","u","e">>, <<"4","1","6","9","e","1">>>>,
    <<<<"s","a","d","d","l","e","b","r","o","w","n">>, <<"8","b","4","5","1","3">>>>,
    <<<<"s","a","l","m","o","n">>, <<"f","a","8","0","7","2">>>>,
    <<<<"s","a","n","d","y","b","r","o","w","n">>, <<"f","4","a","4","6","0">>>>,
    <<<<"s","e","a","g","r","e","e","n">>, <<"2","e","8","b","5","7">>>>,
    <<<<"s","e","a","s","h","e","l","l">>, <<"f","f","f","5","e","e">>>>,
    <<<<"s","i","e","n","n","a">>, <<"a","0","5","2","2","d">>>>,
    <<<<"s","i","l","v","e","r">>, <<"c","0","c","0","c","0">>>>,
    <<<<"s","k","y","b","l","u","e">>, <<"8","7","c","e","e","b">>>>,
    <<<<"s","l","a","t","e","b","l","u","e">>, <<"6","a","5","a","c","d">>>>,
    <<<<"s","l","a","t","e","g","r","a","y">>, <<"7","0","8","0","9","0">>>>,
    <<<<"s","l","a","t","e","g","r","e","y">>, <<"7","0","8","0","9","0">>>>,
    <<<<"s","n","o","w">>, <<"f","f","f","a","f","a">>>>,
    <<<<"s","p","r","i","n","g","g","r","e","e","n">>, <<"0","0","f","f","7","f">>>>,
    <<<<"s","t","e","e","l","b","l","u","e">>, <<"4","6","8","2","b","4">>>>,
    <<<<"t","a","n">>, <<"d","2","b","4","8","c">>>>,
    <<<<"t","e","a","l">>, <<"0","0","8","0","8","0">>>>,
    <<<<"t","h","i","s","t","l","e">>, <<"d","8","b","f","d","8">>>>,
    <<<<"t","o","m","a","t","o">>, <<"f","f","6","3","4","7">>>>,
    <<<<"t","u","r","q","u","o","i","s","e">>, <<"4","0","e","0","d","0">>>>,
    <<<<"v","i","o","l","e","t">>, <<"e","e","8","2","e","e">>>>,
    <<<<"w","h","e","a","t">>, <<"f","5","d","e","b","3">>>>,
    <<<<"w","h","i","t","e">>, <<"f","f","f","f","f","f">>>>,
    <<<<"w","h","i","t","e","s","m","o","k","e">>, <<"f","5","f","5","f","5">>>>,
    <<<<"y","e","l","l","o","w">>, <<"f","f","f","f","0","0">>>>,
    <<<<"y","e","l","l","o","w","g","r","e","e","n">>, <<"9","a","c","d","3","2">>>>
>>

\* "name.lower() in CSS3" and "CSS3[name.lower()]"
CSS3Has(key) ==
    LET has(table) == \E k \in 1..Len(table) : table[k][1] = key
    IN  has(CSS3)

CSS3Get(key) ==
    LET get(table) == table[CHOOSE k \in 1..Len(table) : table[k][1] = key][2]
    IN  get(CSS3)

\* ------------------------------------------------------------------------
\* class Colour: the methods, as functions of the receiver's stored triple c
\*
\* A setter yields [col, out]: the triple stored when the call ends and how
\* the call ended: "self" (it returned the instance), "raise" (an exception
\* reached the caller) or "error" (it returned an exception object).
\* ------------------------------------------------------------------------

Ret(col, out) == [col |-> col, out |-> out]

\* rgb(rgb, min, max), called with a tuple.  A conversion that raised while
\* the argument was being computed arrives here as Raised.
rgb_set_unchecked(c, v, min, max) ==
    IF Len(v) # 3 THEN Ret(c, "raise")
    ELSE IF max = min /\ (min # Zero \/ max # One) /\ \E k \in 1..3 : ~IsNone(v[k])
         THEN Ret(c, "raise")
    ELSE Ret([k \in 1..3 |-> IF IsNone(v[k]) THEN c[k]
                             ELSE RDiv(RSub(v[k], min), RSub(max, min))], "self")

rgb_set(c, v, min, max) ==
    IF Len(v) # 3 THEN Ret(c, "raise")
    ELSE IF \E k \in 1..3 : ~IsNone(v[k]) /\ (RLt(v[k], min) \/ RGt(v[k], max))
         THEN Ret(c, "raise")
    ELSE IF min = Zero /\ max = One
         THEN Ret([k \in 1..3 |-> IF IsNone(v[k]) THEN c[k] ELSE v[k]], "self")
    ELSE IF max = min /\ \E k \in 1..3 : ~IsNone(v[k])
         THEN Ret(c, "raise")
    ELSE Ret([k \in 1..3 |-> IF IsNone(v[k]) THEN c[k]
                             ELSE RDiv(RSub(v[k], min), RSub(max, min))], "self")

rgb100(c, v) == rgb_set(c, v, R(0), R(100))

rgb255(c, v) == rgb_set(c, v, R(0), R(255))

\* yiq() and luma(), called with no argument
yiq_get(c) == rgbtoyiq(c)

luma_get_mean(c) == RDiv(RAdd(RAdd(c[1], c[2]), c[3]), R(3))

luma_get(c) == yiq_get(c)[1]

\* "float(x - min) / float(max - min)" where the range is not the default
Scaled(x, min, max, isscaled) ==
    IF isscaled THEN RDiv(RSub(x, min), RSub(max, min)) ELSE x

\* The yiq triple that yiq() hands to yiqtorgb: the given values scaled to
\* the default ranges, the old ones where None is given (Raised where the
\* scaling divides by zero)
YiqNew(v, oldyiq, ymin, ymax, iqmin, iqmax) ==
    IF IsRaised(oldyiq) THEN Raised
    ELSE IF \/ ~IsNone(v[1]) /\ (ymin # Zero \/ ymax # One) /\ ymax = ymin
            \/ \E k \in 2..3 : /\ ~IsNone(v[k])
                               /\ (iqmin # R(-1) \/ iqmax # One)
                               /\ iqmax = iqmin
         THEN Raised
    ELSE <<IF IsNone(v[1]) THEN oldyiq[1]
           ELSE Scaled(v[1], ymin, ymax, ymin # Zero \/ ymax # One),
           IF IsNone(v[2]) THEN oldyiq[2]
           ELSE Scaled(v[2], iqmin, iqmax, iqmin # R(-1) \/ iqmax # One),
           IF IsNone(v[3]) THEN oldyiq[3]
           ELSE Scaled(v[3], iqmin, iqmax, iqmin # R(-1) \/ iqmax # One)>>

\* yiq(yiq, ymin, ymax, iqmin, iqmax), called with a tuple
yiq_set(c, v, ymin, ymax, iqmin, iqmax) ==
    IF Len(v) # 3 THEN Ret(c, "raise")
    ELSE IF ~IsNone(v[1]) /\ (RLt(v[1], ymin) \/ RGt(v[1], ymax))
         THEN Ret(c, "raise")
    ELSE IF \E k \in 2..3 : ~IsNone(v[k]) /\ (RLt(v[k], iqmin) \/ RGt(v[k], iqmax))
         THEN Ret(c, "raise")
    ELSE rgb_set(c, yiqtorgb(YiqNew(v, yiq_get(c), ymin, ymax, iqmin, iqmax)),
                 Zero, One)

\* (the luma is left where it is)
luma_set_nothing(c, y) == Ret(c, "self")

\* luma(y), called with a number
luma_set(c, y) ==
    IF RLt(y, Zero) \/ RGt(y, One) THEN Ret(c, "raise")
    ELSE yiq_set(c, <<y, None, None>>, Zero, One, R(-1), One)

\* "x + (1 - x) * scale" for a positive scale, "x * (scale + 1)" otherwise
Shifted_upward(x, scale) == RAdd(x, RMul(RSub(One, x), scale))

Shifted(x, scale) ==
    IF RGt(scale, Zero) THEN RAdd(x, RMul(RSub(One, x), scale))
    ELSE RMul(x, RAdd(scale, One))

shiftluma(c, scale) ==
    IF scale = Zero THEN Ret(c, "self")
    ELSE IF RLt(scale, R(-1)) \/ RGt(scale, One) THEN Ret(c, "error")
    ELSE luma_set(c, Shifted(luma_get(c), scale))

\* __hsx(hsl), called with no tuple and the default ranges
__hsx_get_swapped(c, ishsl) == _rgbtohsx(~ishsl, c)

\* "rgbtohsl(self.__colour) if hsl else rgbtohsv(self.__colour)"
__hsx_get(c, ishsl) == _rgbtohsx(ishsl, c)

\* (the hue is taken as given)
wraphue_nothing(h, hmin, hmax) == h

\* "h = (h - hmin) % (hmax - hmin) + hmin"
wraphue(h, hmin, hmax) == RAdd(RMod(RSub(h, hmin), RSub(hmax, hmin)), hmin)

\* The hsx triple that __hsx hands to hsltorgb or hsvtorgb: the given
\* values scaled to the default ranges, the hue wrapped first, and the old
\* ones where None is given (Raised where the scaling divides by zero)
HsxNew(hsx, oldhsx, hmin, hmax, sxmin, sxmax) ==
    IF IsRaised(oldhsx) THEN Raised
    ELSE IF \E k \in 2..3 : /\ ~IsNone(hsx[k])
                            /\ (sxmin # Zero \/ sxmax # One)
                            /\ sxmax = sxmin
         THEN Raised
    ELSE <<IF IsNone(hsx[1]) THEN oldhsx[1]
           ELSE Scaled(wraphue(hsx[1], hmin, hmax), hmin, hmax,
                       hmin # Zero \/ hmax # R(360)),
           IF IsNone(hsx[2]) THEN oldhsx[2]
           ELSE Scaled(hsx[2], sxmin, sxmax, sxmin # Zero \/ sxmax # One),
           IF IsNone(hsx[3]) THEN oldhsx[3]
           ELSE Scaled(hsx[3], sxmin, sxmax, sxmin # Zero \/ sxmax # One)>>

\* "self.luma(y)" after a setter that ended as step1
ThenLuma(step1, y) ==
    IF step1.out = "self" THEN luma_set(step1.col, y) ELSE step1

\* "if perceptual: self.luma(oldluma)", oldluma being the luma of c
Relumed(c, perceptual, step1) ==
    IF perceptual THEN ThenLuma(step1, luma_get(c)) ELSE step1

\* __hsx(hsl, hsx, perceptual, hmin, hmax, sxmin, sxmax), called with a tuple.
\* hsltorgb and hsvtorgb are _hsxtorgb with hsl True and False.
__hsx_set(c, ishsl, hsx, perceptual, hmin, hmax, sxmin, sxmax) ==
    IF Len(hsx) # 3 THEN Ret(c, "raise")
    ELSE IF ~IsNone(hsx[1]) /\ hmax = hmin THEN Ret(c, "raise")
    ELSE IF \E k \in 2..3 : ~IsNone(hsx[k]) /\ (RLt(hsx[k], sxmin) \/ RGt(hsx[k], sxmax))
         THEN Ret(c, "raise")
    ELSE Relumed(c, perceptual,
                 rgb_set(c,
                         _hsxtorgb(ishsl, HsxNew(hsx, __hsx_get(c, ishsl),
                                                 hmin, hmax, sxmin, sxmax)),
                         Zero, One))

hsv(c, v, perceptual, hmin, hmax, svmin, svmax) ==
    __hsx_set(c, FALSE, v, perceptual, hmin, hmax, svmin, svmax)

hsv100(c, v, perceptual) == hsv(c, v, perceptual, R(0), R(360), R(0), R(100))

hsv255(c, v, perceptual) == hsv(c, v, perceptual, R(0), R(360), R(0), R(255))

hsl(c, v, perceptual, hmin, hmax, slmin, slmax) ==
    __hsx_set(c, TRUE, v, perceptual, hmin, hmax, slmin, slmax)

hsl100(c, v, perceptual) == hsl(c, v, perceptual, R(0), R(360), R(0), R(100))

hsl255(c, v, perceptual) == hsl(c, v, perceptual, R(0), R(360), R(0), R(255))

\* hex(hex), called with a string
hex_set(c, string) == rgb_set(c, hextorgb(string), Zero, One)

\* hex(), called without a string: "rgbtohex(self.rgb(), ...)"
hex_get(c, hash, allowshort, forceshort) ==
    rgbtohex(c, hash, allowshort, forceshort)

\* css3(name), called with a string
css3_set(c, name) ==
    IF CSS3Has(lower(name)) THEN hex_set(c, CSS3Get(lower(name)))
    ELSE Ret(c, "raise")

\* rgb(min=..., max=...), called without a tuple.  minfloat, maxfloat: the
\* bound is a float, not an int ("isinstance(min, float)")
rgb_get(c, min, max, minfloat, maxfloat) ==
    IF min = Zero /\ max = One THEN c
    ELSE IF ~minfloat /\ ~maxfloat
    THEN [k \in 1..3 |-> R(round(RAdd(min, RMul(c[k], RSub(max, min)))))]
    ELSE [k \in 1..3 |-> RAdd(min, RMul(c[k], RSub(max, min)))]

\* rgb255(), called without a tuple: "self.rgb(min=0, max=255)"
rgb255_get(c) == rgb_get(c, R(0), R(255), FALSE, FALSE)

\* "(i, i, i)"
Triple(i) == <<i, i, i>>

\* grey(i, min, max), called with a number
grey_set(c, i, min, max) ==
    IF RLt(i, min) \/ RGt(i, max) THEN Ret(c, "raise")
    ELSE IF (min # Zero \/ max # Zero) /\ max = min THEN Ret(c, "raise")
    ELSE rgb_set(c, Triple(Scaled(i, min, max, min # Zero \/ max # Zero)),
                 Zero, One)

\* hue(), hue(h) and shifthue(angle)
hue_get(c) == __hsx_get(c, FALSE)[1]

hue_set(c, h, perceptual) ==
    hsv(c, <<h, None, None>>, perceptual, R(0), R(360), Zero, One)

shifthue(c, angle, perceptual) ==
    IF angle = Zero THEN Ret(c, "self")
    ELSE hue_set(c, RAdd(hue_get(c), angle), perceptual)

\* __saturation_hsx(hsl) and __saturation_hsx(hsl, s, perceptual); hsl() and
\* hsv() are __hsx with hsl True and False
__saturation_hsx_get(c, ishsl) == __hsx_get(c, ishsl)[2]

__saturation_hsx_set(c, ishsl, s, perceptual) ==
    IF RLt(s, Zero) \/ RGt(s, One) THEN Ret(c, "raise")
    ELSE __hsx_set(c, ishsl, <<None, s, None>>, perceptual,
                   R(0), R(360), Zero, One)

saturation_hsv(c, s, perceptual) == __saturation_hsx_set(c, FALSE, s, perceptual)

saturation_hsl(c, s, perceptual) == __saturation_hsx_set(c, TRUE, s, perceptual)

__shiftsaturation_hsx(c, ishsl, scale, perceptual) ==
    IF scale = Zero THEN Ret(c, "self")
    ELSE IF RLt(scale, R(-1)) \/ RGt(scale, One) THEN Ret(c, "error")
    ELSE __hsx_set(c, ishsl,
                   <<None, Shifted(__saturation_hsx_get(c, ishsl), scale), None>>,
                   perceptual, R(0), R(360), Zero, One)

shiftsaturation_hsv(c, scale, perceptual) ==
    __shiftsaturation_hsx(c, FALSE, scale, perceptual)

shiftsaturation_hsl(c, scale, perceptual) ==
    __shiftsaturation_hsx(c, TRUE, scale, perceptual)

\* (the two colours taken the other way round)
mix_swapped(c, target, proportion) ==
    IF RLt(proportion, Zero) \/ RGt(proportion, One) THEN Ret(c, "error")
    ELSE rgb_set(c, [x \in 1..3 |->
                        RAdd(target[x], RMul(RSub(c[x], target[x]), proportion))],
                 Zero, One)

\* mix(colour, proportion), colour being a Colour whose triple is target
mix(c, target, proportion) ==
    IF RLt(proportion, Zero) \/ RGt(proportion, One) THEN Ret(c, "error")
    ELSE rgb_set(c, [x \in 1..3 |->
                        RAdd(c[x], RMul(RSub(target[x], c[x]), proportion))],
                 Zero, One)

\* intensity(), intensity(i) and shiftintensity(scale)
intensity_get(c) == RDiv(RAdd(RAdd(c[1], c[2]), c[3]), R(3))

\* mix(1, scale) and mix(0, -scale): Colour(1) is white, Colour(0) is black
shiftintensity(c, scale) ==
    IF scale = Zero THEN Ret(c, "self")
    ELSE IF RLt(scale, R(-1)) \/ RGt(scale, One) THEN Ret(c, "error")
    ELSE IF RGt(scale, Zero) THEN mix(c, <<One, One, One>>, scale)
    ELSE mix(c, <<Zero, Zero, Zero>>, RNeg(scale))

\* intensity(i) for 0 < i < 1, old being self.intensity()
IntensityFrom_unscaled(c, i, old) ==
    IF i = old THEN Ret(c, "self")
    ELSE shiftintensity(c, RSub(i, old))

IntensityFrom(c, i, old) ==
    IF i = old THEN Ret(c, "self")
    ELSE shiftintensity(c, IF RGt(RSub(i, old), Zero)
                           THEN RDiv(RSub(i, old), RSub(One, old))
                           ELSE RDiv(RSub(i, old), old))

intensity_set(c, i) ==
    IF RLt(i, Zero) \/ RGt(i, One) THEN Ret(c, "raise")
    ELSE IF i = Zero \/ i = One THEN grey_set(c, i, Zero, One)
    ELSE IntensityFrom(c, i, intensity_get(c))

\* __value_lightness(hsl) and __value_lightness(hsl, x)
__value_lightness_get(c, ishsl) == __hsx_get(c, ishsl)[3]

__value_lightness_set_both(c, ishsl, x) ==
    IF RLt(x, Zero) \/ RGt(x, One) THEN Ret(c, "raise")
    ELSE __hsx_set(c, ishsl, <<None, x, x>>, FALSE, R(0), R(360), Zero, One)

__value_lightness_set(c, ishsl, x) ==
    IF RLt(x, Zero) \/ RGt(x, One) THEN Ret(c, "raise")
    ELSE __hsx_set(c, ishsl, <<None, None, x>>, FALSE, R(0), R(360), Zero, One)

value(c, v) == __value_lightness_set(c, FALSE, v)

lightness(c, l) == __value_lightness_set(c, TRUE, l)

__shiftvalue_lightness_absolute(c, ishsl, scale) ==
    IF scale = Zero THEN Ret(c, "self")
    ELSE __value_lightness_set(c, ishsl, scale)

__shiftvalue_lightness(c, ishsl, scale) ==
    IF scale = Zero THEN Ret(c, "self")
    ELSE IF RLt(scale, R(-1)) \/ RGt(scale, One) THEN Ret(c, "error")
    ELSE __value_lightness_set(c, ishsl,
                               Shifted(__value_lightness_get(c, ishsl), scale))

shiftvalue(c, scale) == __shiftvalue_lightness(c, FALSE, scale)

shiftlightness(c, scale) == __shiftvalue_lightness(c, TRUE, scale)

\* hash(tohash, minh, maxh, mins, maxs, miny, maxy)
\*
\* hashlib.md5 is not computed here.  MD5Lead lists, for the inputs the model
\* offers, the first hexadecimal digit of hexdigest()[0:8], [8:16] and
\* [16:24]; the model reads each field int(hash[a:b], 16) / float(16**8) to
\* that one digit, d / 16.
MD5Lead == <<
    <<<<"t", "r", "e", "m", "b", "y">>, <<"e", "6", "7">>>>,
    <<<<"y", "a", "p", "p", "y">>, <<"8", "f", "c">>>>,
    <<<<"m", "o", "n">>, <<"1", "7", "9">>>>,
    <<<<"b", "i", "l", "l">>, <<"e", "d", "f">>>>
>>

md5field(tohash, k) ==
    Rat(HexVal(MD5Lead[CHOOSE n \in 1..Len(MD5Lead) : MD5Lead[n][1] = tohash][2][k]),
        16)

\* "while minh <= -360: minh += 360" and "while minh >= 360: minh -= 360"
RECURSIVE HueWindow(_)
HueWindow(h) ==
    IF RLe(h, R(-360)) THEN HueWindow(RAdd(h, R(360)))
    ELSE IF RGe(h, R(360)) THEN HueWindow(RSub(h, R(360)))
    ELSE h

\* "minimum + field * (maximum - minimum)"
Within(lo, hi, field) == RAdd(lo, RMul(RSub(hi, lo), field))

\* "h = minh + (maxh - minh) * int(hash[0:8], 16) / float(16**8)", s and y
\* likewise, the hue window being lo to hi
HashTriple(tohash, lo, hi, mins, maxs, miny, maxy) ==
    <<Within(lo, hi, md5field(tohash, 1)),
      Within(mins, maxs, md5field(tohash, 2)),
      Within(miny, maxy, md5field(tohash, 3))>>

\* (only the hue is taken from the digest)
Hashed_hue(c, hsy) ==
    ThenLuma(hsv(c, <<hsy[1], None, None>>, FALSE, R(0), R(360), Zero, One),
             hsy[3])

\* "return self.hsv((h, s, y)).luma(y)"
Hashed(c, hsy) ==
    ThenLuma(hsv(c, hsy, FALSE, R(0), R(360), Zero, One), hsy[3])

\* The hue window: all hues if a bound is None, else both bounds brought
\* into -360~360
HueBounds(minh, maxh) ==
    IF IsNone(maxh) \/ IsNone(minh) THEN <<R(0), R(360)>>
    ELSE <<HueWindow(minh), HueWindow(maxh)>>

hash(c, tohash, minh, maxh, mins, maxs, miny, maxy) ==
    IF \/ RLt(mins, Zero) \/ RGt(mins, One)
       \/ RLt(maxs, Zero) \/ RGt(maxs, One)
       \/ RLt(miny, Zero) \/ RGt(miny, One)
       \/ RLt(maxy, Zero)
    THEN Ret(c, "raise")
    ELSE IF RGt(mins, maxs) THEN Ret(c, "raise")
    ELSE IF RGt(miny, maxy) THEN Ret(c, "raise")
    ELSE Hashed(c, HashTriple(tohash, HueBounds(minh, maxh)[1],
                              HueBounds(minh, maxh)[2], mins, maxs, miny, maxy))

\* ------------------------------------------------------------------------
\* The constructor
\*
\* An argument is a value with its Python type: ty is "none" (None), "num",
\* "seq" (a tuple), "str" or "colour" (a Colour object, seq its rgb()).
\* ------------------------------------------------------------------------

NoVal   == [ty |-> "none",   num |-> None, seq |-> <<>>, str |-> <<>>]
NumV(x) == [ty |-> "num",    num |-> x,    seq |-> <<>>, str |-> <<>>]
SeqV(s) == [ty |-> "seq",    num |-> None, seq |-> s,    str |-> <<>>]
StrV(s) == [ty |-> "str",    num |-> None, seq |-> <<>>, str |-> s]
ColV(s) == [ty |-> "colour", num |-> None, seq |-> s,    str |-> <<>>]

ArgNames == {"arg", "grey", "rgb", "rgb100", "rgb255", "hsv", "hsv100",
             "hsv255", "hsl", "hsl100", "hsl255", "yiq", "hex", "css3",
             "hash", "colour"}

\* The class attribute: "__colour = (0.0, 0.0, 0.0)"
__colour == <<Zero, Zero, Zero>>

\* "Colour(css3=key).rgb255()"
KeyBytes(made) == IF made.out = "self" THEN rgb255_get(made.col) ELSE Raised

\* what the loop compares with, for every key in the order of the table
CSS3Bytes == [k \in 1..Len(CSS3) |-> KeyBytes(css3_set(__colour, CSS3[k][1]))]

\* the keys of CSS3 that "rgb255 == Colour(css3=key).rgb255()" holds for
Matches(bytes) == {k \in 1..Len(CSS3) : bytes = CSS3Bytes[k]}

\* (the last in the order of the table)
Last(S) == IF S = {} THEN 0 ELSE CHOOSE k \in S : \A j \in S : k >= j

\* "for key in CSS3.keys(): if ...: return key": the first in the order of
\* the table, 0 when the loop ends without one
First(S) == IF S = {} THEN 0 ELSE CHOOSE k \in S : \A j \in S : k <= j

\* "return key" or "return None"
KeyAt(k) == IF k = 0 THEN None ELSE CSS3[k][1]

css3_index(c) == First(Matches(rgb255_get(c)))

\* css3(), called without a name
css3_get(c) == KeyAt(css3_index(c))

\* ------------------------------------------------------------------------
\* The getters with a range.  A range is <<min, max, minfloat, maxfloat>>:
\* the two bounds, and whether each is a float ("isinstance(min, float)")
\* ------------------------------------------------------------------------

\* what grey() returns for a colour that is no grey
PyFalse == <<"False">>

\* "min + x * (max - min)"
Spread(x, min, max) == RAdd(min, RMul(x, RSub(max, min)))

\* "int(round(x))" if neither bound is a float
Integral(x, range) == IF ~range[3] /\ ~range[4] THEN R(round(x)) ELSE x

\* __hsx(hsl, hmin=..., hmax=..., sxmin=..., sxmax=...), called without a
\* tuple: hsx is rgbtohsl or rgbtohsv of the colour
HsxScaled(hsx, hrange, sxrange) ==
    <<Integral(IF hrange[1] # R(0) \/ hrange[2] # R(360)
               THEN Spread(RDiv(hsx[1], R(360)), hrange[1], hrange[2])
               ELSE hsx[1], hrange),
      Integral(IF sxrange[1] # Zero \/ sxrange[2] # One
               THEN Spread(hsx[2], sxrange[1], sxrange[2])
               ELSE hsx[2], sxrange),
      Integral(IF sxrange[1] # Zero \/ sxrange[2] # One
               THEN Spread(hsx[3], sxrange[1], sxrange[2])
               ELSE hsx[3], sxrange)>>

__hsx_get_scaled(c, ishsl, hrange, sxrange) ==
    HsxScaled(_rgbtohsx(ishsl, c), hrange, sxrange)

\* yiq(ymin=..., ymax=..., iqmin=..., iqmax=...), called without a tuple: yiq
\* is rgbtoyiq of the colour
YiqScaled(yiq, yrange, iqrange) ==
    <<Integral(IF yrange[1] # Zero \/ yrange[2] # One
               THEN Spread(yiq[1], yrange[1], yrange[2])
               ELSE yiq[1], yrange),
      Integral(IF iqrange[1] # R(-1) \/ iqrange[2] # One
               THEN Spread(yiq[2], iqrange[1], iqrange[2])
               ELSE yiq[2], iqrange),
      Integral(IF iqrange[1] # R(-1) \/ iqrange[2] # One
               THEN Spread(yiq[3], iqrange[1], iqrange[2])
               ELSE yiq[3], iqrange)>>

yiq_get_scaled(c, yrange, iqrange) == YiqScaled(rgbtoyiq(c), yrange, iqrange)

\* grey(min=..., max=...), called without a number
grey_get_mean(c, range) ==
    Integral(Spread(intensity_get(c), range[1], range[2]), range)

grey_get(c, range) ==
    IF __saturation_hsx_get(c, FALSE) # Zero THEN PyFalse
    ELSE Integral(Spread(intensity_get(c), range[1], range[2]), range)

HashDefault(c, tohash) ==
    hash(c, tohash, None, None, Rat(2, 10), One, Rat(3, 10), Rat(7, 10))

\* "if arg is not None:": what the first positional argument is taken for
\* ("" where it is taken for nothing: ValueError)
ArgKind(arg) ==
    IF arg.ty = "num" /\ RGe(arg.num, Zero) /\ RLe(arg.num, One) THEN "grey"
    ELSE IF arg.ty = "seq" /\ Len(arg.seq) = 3 THEN "rgb"
    ELSE IF arg.ty = "str" /\ _validhex(arg.str) THEN "hex"
    ELSE IF arg.ty = "str" THEN "css3"
    ELSE IF arg.ty = "colour" THEN "colour"
    ELSE ""

\* The setter that is called for a first positional argument of that kind
Positional(c, kind, v) ==
    CASE kind = "grey" -> grey_set(c, v.num, Zero, One)
      [] kind \in {"rgb", "colour"} -> rgb_set(c, v.seq, Zero, One)
      [] kind = "hex" -> hex_set(c, v.str)
      [] kind = "css3" -> css3_set(c, v.str)
      [] OTHER -> Ret(c, "raise")

\* Colour(arg), arg not None
__init__arg(arg) == Positional(__colour, ArgKind(arg), arg)

\* The keyword arguments, in the order of the "if ... elif" chain
Keywords == <<"grey", "rgb", "rgb100", "rgb255", "hsv", "hsv100", "hsv255",
              "hsl", "hsl100", "hsl255", "yiq", "hex", "css3", "hash", "colour">>

\* The first keyword argument of the chain that is not None ("" for none)
FirstKeyword(a) ==
    IF \E k \in 1..Len(Keywords) : a[Keywords[k]].ty # "none"
    THEN Keywords[CHOOSE k \in 1..Len(Keywords) :
                     /\ a[Keywords[k]].ty # "none"
                     /\ \A j \in 1..(k - 1) : a[Keywords[j]].ty = "none"]
    ELSE ""

\* The setter the chain calls for keyword argument kw, given the value v;
\* with no keyword argument, "self.grey(0)"
Keyword(c, kw, v) ==
    CASE kw = "grey" -> grey_set(c, v.num, Zero, One)
      [] kw \in {"rgb", "rgb100", "rgb255", "colour"} ->
            rgb_set(c, v.seq, Zero,
                    IF kw = "rgb100" THEN R(100)
                    ELSE IF kw = "rgb255" THEN R(255) ELSE One)
      [] kw \in {"hsv", "hsv100", "hsv255", "hsl", "hsl100", "hsl255"} ->
            __hsx_set(c, kw \in {"hsl", "hsl100", "hsl255"}, v.seq, FALSE,
                      R(0), R(360), Zero,
                      IF kw \in {"hsv100", "hsl100"} THEN R(100)
                      ELSE IF kw \in {"hsv255", "hsl255"} THEN R(255) ELSE One)
      [] kw = "yiq" -> yiq_set(c, v.seq, Zero, One, R(-1), One)
      [] kw = "hex" -> hex_set(c, v.str)
      [] kw = "css3" -> css3_set(c, v.str)
      [] kw = "hash" -> HashDefault(c, v.str)
      [] OTHER -> grey_set(c, R(0), Zero, One)

\* __init__ with keyword (and first positional) arguments a, a function
\* from ArgNames to values: what follows the check of their number
__init__body(a) ==
    IF a["arg"].ty # "none" THEN __init__arg(a["arg"])
    ELSE Keyword(__colour, FirstKeyword(a),
                 IF FirstKeyword(a) = "" THEN NoVal ELSE a[FirstKeyword(a)])

\* (the check "at most one non-None argument" left out)
__init__unchecked(a) == __init__body(a)

__init__(a) ==
    IF Cardinality({n \in ArgNames : a[n].ty # "none"}) > 1
    THEN Ret(__colour, "raise")
    ELSE __init__body(a)

\* ------------------------------------------------------------------------
\* The state machine: a program holding up to two Colour objects
\* ------------------------------------------------------------------------

VARIABLES
    heap,     \* object -> its stored triple (self.__colour)
    exists,   \* the objects constructed so far
    last,     \* the call made last: what was called, on what, and how it ended
    steps     \* the number of setter calls made on the objects

vars == <<heap, exists, last, steps>>

\* The most setter calls made after construction.
MaxOps == 1

\* A setter is called only on a triple whose common denominator is at most
\* this (the triples it produces are checked whatever their denominator).
MaxDen == 60

\* The most arguments a constructor call is given.
MaxCtorArgs == 2

Objects == {1, 2}

\* (the triple written to the class, which every object shares)
CommitShared(h, o, col) == [k \in DOMAIN h |-> col]

\* "self.__colour = newrgb" on object o
Commit(h, o, col) == [h EXCEPT ![o] = col]

Call(op, o, r, a, rng, flag, n) ==
    [op |-> op, obj |-> o, pre |-> heap, out |-> r.out,
     ret |-> IF r.out = "self" THEN o ELSE 0,
     a |-> a, rng |-> rng, flag |-> flag, n |-> n]

\* Object o is called: r is what the method yields on heap[o].
Apply(op, o, r, a, rng, flag, n) ==
    /\ heap' = Commit(heap, o, r.col)
    /\ last' = Call(op, o, r, a, rng, flag, n)
    /\ steps' = steps + 1
    /\ UNCHANGED exists

Callable(o) ==
    /\ o \in exists
    /\ steps < MaxOps
    /\ Den(heap[o]) <= MaxDen

Init ==
    /\ heap = [o \in Objects |-> __colour]
    /\ exists = {}
    /\ steps = 0
    /\ last = [op |-> "none", obj |-> 0, pre |-> [o \in Objects |-> __colour],
               out |-> "none", ret |-> 0, a |-> <<>>, rng |-> <<>>,
               flag |-> FALSE, n |-> 0]

\* ---- inputs ----

H == Rat(1, 2)
DefaultRange == <<Zero, One>>
DefaultHsx == <<R(0), R(360), Zero, One>>
DefaultYiq == <<Zero, One, R(-1), One>>

Strings == <<
    <<"a", "b", "c">>,
    <<"#", "D", "E", "f">>,
    <<"#", "0", "0", "7", "b", "c", "c">>,
    <<"9", "0", "0", "0", "f", "0">>,
    <<"z", "z", "z">>,
    <<"#", "f", "f", "f", "f">>,
    <<"f", "f", "f", "f", "f", "f", "\n">>,
    <<"f", "f", "f", "\n">>,
    <<"r", "e", "d">>,
    <<"A", "q", "u", "a">>,
    <<"c", "y", "a", "n">>,
    <<"G", "O", "L", "D", "E", "N", "r", "o", "d">>,
    <<"n", "o", "t", "a", "c", "o", "l", "o", "u", "r">>,
    <<>>
>>

HashInputs == <<<<"t", "r", "e", "m", "b", "y">>, <<"y", "a", "p", "p", "y">>,
                <<"m", "o", "n">>, <<"b", "i", "l", "l">>>>

RgbArgs == {<<Zero, Zero, One>>, <<One, H, Zero>>,
            <<Rat(1, 4), H, Rat(3, 4)>>, <<Rat(1, 3), Rat(1, 3), Rat(1, 3)>>,
            <<None, One, None>>, <<Rat(3, 2), Zero, Zero>>,
            <<Zero, Rat(-1, 2), None>>, <<Zero, Zero>>}

Rgb100Args == {<<R(100), R(0), R(0)>>, <<R(50), R(25), None>>,
               <<R(101), R(0), R(0)>>}

Rgb255Args == {<<R(255), R(0), R(0)>>, <<R(51), R(102), R(153)>>,
               <<R(256), R(0), R(0)>>}

\* hue, saturation, value or lightness, with the ranges they are given in
HsxArgs == {<<R(0), One, One>>, <<R(120), H, H>>, <<R(380), H, One>>,
            <<R(20), H, One>>, <<R(-340), H, One>>, <<R(300), One, Rat(1, 4)>>,
            <<None, None, H>>, <<R(30), None, None>>, <<None, H, None>>,
            <<R(0), Rat(3, 2), One>>, <<R(0), One>>}

HsxRangeArgs == {<<<<Rat(9, 10), H, H>>, <<R(0), R(1), Zero, One>>>>,
                 <<<<Rat(19, 10), H, H>>, <<R(0), R(1), Zero, One>>>>,
                 <<<<R(-90), One, H>>, <<R(-180), R(180), Zero, One>>>>,
                 <<<<R(270), One, H>>, <<R(-180), R(180), Zero, One>>>>,
                 <<<<R(30), One, One>>, <<R(10), R(10), Zero, One>>>>,
                 <<<<R(250), R(88), R(200)>>, <<R(0), R(360), R(0), R(255)>>>>}

Hsx100Args == {<<R(90), R(45), R(100)>>, <<R(270), R(100), R(44)>>,
               <<R(0), R(101), R(0)>>}

Hsx255Args == {<<R(90), R(45), R(255)>>, <<R(270), R(255), R(180)>>,
               <<R(0), R(0), R(256)>>}

YiqArgs == {<<<<H, Zero, Zero>>, DefaultYiq>>,
            <<<<H, Rat(-1, 5), One>>, DefaultYiq>>,
            <<<<None, None, H>>, DefaultYiq>>,
            <<<<Zero, None, None>>, DefaultYiq>>,
            <<<<R(2), Zero, Zero>>, DefaultYiq>>,
            <<<<H, R(2), Zero>>, DefaultYiq>>,
            <<<<H, Zero>>, DefaultYiq>>,
            <<<<Rat(2, 5), R(-100), R(-88)>>, <<Zero, One, R(-100), R(100)>>>>,
            <<<<R(45), R(-1), H>>, <<R(40), R(60), R(-1), One>>>>}

GreyArgs == {<<Zero, DefaultRange>>, <<H, DefaultRange>>,
             <<One, DefaultRange>>, <<Rat(3, 2), DefaultRange>>,
             <<R(50), <<R(0), R(200)>>>>, <<R(5), <<R(5), R(5)>>>>}

\* minh, maxh, mins, maxs, miny, maxy
HashWindows == {<<None, None, Rat(2, 10), One, Rat(3, 10), Rat(7, 10)>>,
                <<R(-20), R(20), Rat(2, 10), One, Rat(3, 10), Rat(7, 10)>>,
                <<R(340), R(380), Zero, Rat(3, 10), Zero, Rat(2, 10)>>,
                <<None, None, Rat(2, 10), One, H, R(2)>>,
                <<None, None, H, Rat(1, 4), Rat(3, 10), Rat(7, 10)>>,
                <<None, None, Rat(2, 10), One, Rat(7, 10), Rat(3, 10)>>,
                <<None, None, Rat(-1, 10), One, Rat(3, 10), Rat(7, 10)>>,
                <<None, None, Rat(2, 10), R(2), Rat(3, 10), Rat(7, 10)>>}

Hues == {R(0), R(30), R(20), R(380), R(-340), R(270)}
Angles == {R(0), R(30), R(-30), R(360)}
Units == {Zero, Rat(1, 3), H, One, Rat(3, 2), Rat(-1, 2)}
Shifts == {Zero, H, One, Rat(-1, 2), R(-1), Rat(3, 2), R(-2)}
Proportions == {Zero, Rat(1, 4), H, One, Rat(-1, 2), Rat(3, 2)}

\* What "colour" in mix(colour, proportion) may be when it is no Colour.
MixArgs == <<NumV(One), NumV(Zero), StrV(Strings[9]), StrV(Strings[5]),
             SeqV(<<Zero, H, One>>)>>

\* The values a constructor argument is given (src: an existing Colour's
\* rgb(), or Raised when there is none yet).
ArgVals(name, src) ==
    CASE name = "arg" ->
            IF IsRaised(src)
            THEN <<NumV(H), NumV(R(2)), SeqV(<<One, H, Zero>>),
                   SeqV(<<R(2), Zero, Zero>>), StrV(Strings[2]),
                   StrV(Strings[10]), StrV(Strings[13])>>
            ELSE <<ColV(src), StrV(Strings[9]), SeqV(<<Zero, H, One>>)>>
      [] name = "grey" -> <<NumV(H), NumV(Rat(1, 3)), NumV(Rat(3, 2))>>
      [] name = "rgb" ->
            <<SeqV(<<Zero, Zero, One>>), SeqV(<<Rat(1, 4), H, Rat(3, 4)>>),
              SeqV(<<One, One, Zero>>), SeqV(<<Rat(2, 3), Rat(1, 3), One>>),
              SeqV(<<H, Zero, H>>), SeqV(<<Zero, One, Rat(1, 5)>>),
              SeqV(<<Zero, Zero, R(2)>>)>>
      [] name = "rgb100" -> <<SeqV(<<R(30), R(75), R(100)>>),
                              SeqV(<<R(0), R(0), R(101)>>)>>
      [] name = "rgb255" -> <<SeqV(<<R(255), R(51), R(0)>>),
                              SeqV(<<R(-1), R(0), R(0)>>)>>
      [] name = "hsv" -> <<SeqV(<<R(0), Rat(4, 5), Rat(3, 5)>>),
                           SeqV(<<R(200), H, One>>),
                           SeqV(<<R(0), Zero, R(2)>>)>>
      [] name = "hsv100" -> <<SeqV(<<R(90), R(45), R(100)>>),
                              SeqV(<<R(0), R(0), R(101)>>)>>
      [] name = "hsv255" -> <<SeqV(<<R(270), R(255), R(51)>>),
                              SeqV(<<R(0), R(256), R(0)>>)>>
      [] name = "hsl" -> <<SeqV(<<R(300), Rat(4, 5), Rat(2, 5)>>),
                           SeqV(<<R(45), One, H>>),
                           SeqV(<<R(0), R(2), Zero>>)>>
      [] name = "hsl100" -> <<SeqV(<<R(270), R(100), R(44)>>),
                              SeqV(<<R(0), R(0), R(101)>>)>>
      [] name = "hsl255" -> <<SeqV(<<R(90), R(51), R(204)>>),
                              SeqV(<<R(0), R(256), R(0)>>)>>
      [] name = "yiq" -> <<SeqV(<<H, Rat(-1, 5), Rat(1, 10)>>),
                           SeqV(<<One, Rat(4, 5), Rat(-2, 5)>>),
                           SeqV(<<H, R(2), Zero>>)>>
      [] name = "hex" -> <<StrV(Strings[1]), StrV(Strings[3]),
                           StrV(Strings[5])>>
      [] name = "css3" -> <<StrV(Strings[9]), StrV(Strings[12]),
                            StrV(Strings[13])>>
      [] name = "hash" -> <<StrV(HashInputs[1]), StrV(HashInputs[3])>>
      [] name = "colour" -> <<ColV(src)>>

\* The sets of at most k argument names
RECURSIVE ArgSets(_)
ArgSets(k) ==
    IF k = 0 THEN {{}}
    ELSE LET P == ArgSets(k - 1)
         IN  P \cup {s \cup {n} : s \in P, n \in ArgNames}

\* The longest of the lists of ArgVals
MaxPick == 8

Pick(list, j) == list[((j - 1) % Len(list)) + 1]

\* ---- the calls ----

\* The arguments named in given, each with its j-th value
CtorArgs(given, j, src) ==
    [n \in ArgNames |-> IF n \in given THEN Pick(ArgVals(n, src), j) ELSE NoVal]

\* The constructor of object o has ended as r, called with arguments a.
Constructed(o, a, r) ==
    /\ heap' = Commit(heap, o, r.col)
    /\ exists' = IF r.out = "self" THEN exists \cup {o} ELSE exists
    /\ last' = Call("__init__", o, r, <<>>, <<>>, FALSE,
                    Cardinality({n \in ArgNames : a[n].ty # "none"}))
    /\ UNCHANGED steps

ConstructWith(o, a) == Constructed(o, a, __init__(a))

\* o = Colour(...).  The first object is made from values; the second from
\* the first (a copy) or from a value, alone or beside other arguments.
Construct(o) ==
    /\ steps = 0
    /\ o \notin exists
    /\ (o = 1 \/ 1 \in exists)
    /\ last.out # "raise"
    /\ \E given \in ArgSets(MaxCtorArgs), j \in 1..MaxPick :
         /\ (o = 1 \/ "arg" \in given \/ "colour" \in given)
         /\ (o = 1 => "colour" \notin given)
         /\ ConstructWith(o, CtorArgs(given, j,
                                      IF 1 \in exists THEN heap[1] ELSE Raised))

DoRgb(o) ==
    /\ Callable(o)
    /\ \E v \in RgbArgs :
         Apply("rgb", o, rgb_set(heap[o], v, Zero, One), v, DefaultRange, FALSE, 0)

DoRgb100(o) ==
    /\ Callable(o)
    /\ \E v \in Rgb100Args :
         Apply("rgb100", o, rgb100(heap[o], v), v, <<R(0), R(100)>>, FALSE, 0)

DoRgb255(o) ==
    /\ Callable(o)
    /\ \E v \in Rgb255Args :
         Apply("rgb255", o, rgb255(heap[o], v), v, <<R(0), R(255)>>, FALSE, 0)

DoHsv(o) ==
    /\ Callable(o)
    /\ \E v \in HsxArgs, p \in BOOLEAN :
         Apply("hsv", o, hsv(heap[o], v, p, R(0), R(360), Zero, One),
               v, DefaultHsx, p, 0)

DoHsl(o) ==
    /\ Callable(o)
    /\ \E v \in HsxArgs, p \in BOOLEAN :
         Apply("hsl", o, hsl(heap[o], v, p, R(0), R(360), Zero, One),
               v, DefaultHsx, p, 0)

DoHsvRange(o) ==
    /\ Callable(o)
    /\ \E w \in HsxRangeArgs, p \in BOOLEAN :
         Apply("hsv", o,
               hsv(heap[o], w[1], p, w[2][1], w[2][2], w[2][3], w[2][4]),
               w[1], w[2], p, 0)

DoHslRange(o) ==
    /\ Callable(o)
    /\ \E w \in HsxRangeArgs, p \in BOOLEAN :
         Apply("hsl", o,
               hsl(heap[o], w[1], p, w[2][1], w[2][2], w[2][3], w[2][4]),
               w[1], w[2], p, 0)

DoHsv100(o) ==
    /\ Callable(o)
    /\ \E v \in Hsx100Args, p \in BOOLEAN :
         Apply("hsv100", o, hsv100(heap[o], v, p), v,
               <<R(0), R(360), R(0), R(100)>>, p, 0)

DoHsv255(o) ==
    /\ Callable(o)
    /\ \E v \in Hsx255Args, p \in BOOLEAN :
         Apply("hsv255", o, hsv255(heap[o], v, p), v,
               <<R(0), R(360), R(0), R(255)>>, p, 0)

DoHsl100(o) ==
    /\ Callable(o)
    /\ \E v \in Hsx100Args, p \in BOOLEAN :
         Apply("hsl100", o, hsl100(heap[o], v, p), v,
               <<R(0), R(360), R(0), R(100)>>, p, 0)

DoHsl255(o) ==
    /\ Callable(o)
    /\ \E v \in Hsx255Args, p \in BOOLEAN :
         Apply("hsl255", o, hsl255(heap[o], v, p), v,
               <<R(0), R(360), R(0), R(255)>>, p, 0)

DoYiq(o) ==
    /\ Callable(o)
    /\ \E w \in YiqArgs :
         Apply("yiq", o,
               yiq_set(heap[o], w[1], w[2][1], w[2][2], w[2][3], w[2][4]),
               w[1], w[2], FALSE, 0)

DoHex(o) ==
    /\ Callable(o)
    /\ \E n \in 1..Len(Strings) :
         Apply("hex", o, hex_set(heap[o], Strings[n]), <<>>, <<>>, FALSE, n)

DoCss3(o) ==
    /\ Callable(o)
    /\ \E n \in 1..Len(Strings) :
         Apply("css3", o, css3_set(heap[o], Strings[n]), <<>>, <<>>, FALSE, n)

DoGrey(o) ==
    /\ Callable(o)
    /\ \E w \in GreyArgs :
         Apply("grey", o, grey_set(heap[o], w[1], w[2][1], w[2][2]),
               <<w[1]>>, w[2], FALSE, 0)

\* rng: the h, s and y of the digest in the windows given
DoHash(o) ==
    /\ Callable(o)
    /\ \E n \in 1..Len(HashInputs), w \in HashWindows :
         Apply("hash", o,
               hash(heap[o], HashInputs[n], w[1], w[2], w[3], w[4], w[5], w[6]),
               w,
               HashTriple(HashInputs[n], HueBounds(w[1], w[2])[1],
                          HueBounds(w[1], w[2])[2], w[3], w[4], w[5], w[6]),
               FALSE, n)

DoHue(o) ==
    /\ Callable(o)
    /\ \E h \in Hues, p \in BOOLEAN :
         Apply("hue", o, hue_set(heap[o], h, p), <<h>>, DefaultHsx, p, 0)

DoShifthue(o) ==
    /\ Callable(o)
    /\ \E x \in Angles, p \in BOOLEAN :
         Apply("shifthue", o, shifthue(heap[o], x, p), <<x>>, DefaultHsx, p, 0)

DoSaturationHsv(o) ==
    /\ Callable(o)
    /\ \E s \in Units, p \in BOOLEAN :
         Apply("saturation_hsv", o, saturation_hsv(heap[o], s, p),
               <<s>>, <<>>, p, 0)

DoSaturationHsl(o) ==
    /\ Callable(o)
    /\ \E s \in Units, p \in BOOLEAN :
         Apply("saturation_hsl", o, saturation_hsl(heap[o], s, p),
               <<s>>, <<>>, p, 0)

DoShiftsaturationHsv(o) ==
    /\ Callable(o)
    /\ \E x \in Shifts, p \in BOOLEAN :
         Apply("shiftsaturation_hsv", o, shiftsaturation_hsv(heap[o], x, p),
               <<x>>, <<>>, p, 0)

DoShiftsaturationHsl(o) ==
    /\ Callable(o)
    /\ \E x \in Shifts, p \in BOOLEAN :
         Apply("shiftsaturation_hsl", o, shiftsaturation_hsl(heap[o], x, p),
               <<x>>, <<>>, p, 0)

DoIntensity(o) ==
    /\ Callable(o)
    /\ \E i \in Units :
         Apply("intensity", o, intensity_set(heap[o], i), <<i>>, <<>>, FALSE, 0)

DoShiftintensity(o) ==
    /\ Callable(o)
    /\ \E x \in Shifts :
         Apply("shiftintensity", o, shiftintensity(heap[o], x),
               <<x>>, <<>>, FALSE, 0)

DoValue(o) ==
    /\ Callable(o)
    /\ \E x \in Units :
         Apply("value", o, value(heap[o], x), <<x>>, <<>>, FALSE, 0)

DoLightness(o) ==
    /\ Callable(o)
    /\ \E x \in Units :
         Apply("lightness", o, lightness(heap[o], x), <<x>>, <<>>, FALSE, 0)

DoShiftvalue(o) ==
    /\ Callable(o)
    /\ \E x \in Shifts :
         Apply("shiftvalue", o, shiftvalue(heap[o], x), <<x>>, <<>>, FALSE, 0)

DoShiftlightness(o) ==
    /\ Callable(o)
    /\ \E x \in Shifts :
         Apply("shiftlightness", o, shiftlightness(heap[o], x),
               <<x>>, <<>>, FALSE, 0)

DoLuma(o) ==
    /\ Callable(o)
    /\ \E y \in Units :
         Apply("luma", o, luma_set(heap[o], y), <<y>>, <<>>, FALSE, 0)

DoShiftluma(o) ==
    /\ Callable(o)
    /\ \E x \in Shifts :
         Apply("shiftluma", o, shiftluma(heap[o], x), <<x>>, <<>>, FALSE, 0)

\* o.mix(t, p), t another Colour (or o itself)
DoMix(o) ==
    /\ Callable(o)
    /\ \E tg \in exists, p \in Proportions :
         Apply("mix", o, mix(heap[o], heap[tg], p), <<p>>, heap[tg], FALSE, tg)

\* mix(colour, proportion), colour neither a Colour nor None: made is what
\* "colour = self.__class__(colour)" yields, and it comes first
mix_arg(c, made, proportion) ==
    IF made.out = "self" THEN mix(c, made.col, proportion)
    ELSE Ret(c, "raise")

MixWith(o, made, p) ==
    Apply("mix", o, mix_arg(heap[o], made, p), <<p>>, made.col, FALSE, 0)

\* o.mix(x, p), x no Colour
DoMixArg(o) ==
    /\ Callable(o)
    /\ \E k \in 1..Len(MixArgs), p \in Proportions :
         MixWith(o, __init__arg(MixArgs[k]), p)

Next ==
    \E o \in Objects :
        \/ Construct(o)
        \/ DoRgb(o) \/ DoRgb100(o) \/ DoRgb255(o)
        \/ DoHsv(o) \/ DoHsl(o) \/ DoHsvRange(o) \/ DoHslRange(o)
        \/ DoHsv100(o) \/ DoHsv255(o) \/ DoHsl100(o) \/ DoHsl255(o)
        \/ DoYiq(o) \/ DoHex(o) \/ DoCss3(o) \/ DoGrey(o) \/ DoHash(o)
        \/ DoHue(o) \/ DoShifthue(o)
        \/ DoSaturationHsv(o) \/ DoSaturationHsl(o)
        \/ DoShiftsaturationHsv(o) \/ DoShiftsaturationHsl(o)
        \/ DoIntensity(o) \/ DoShiftintensity(o)
        \/ DoValue(o) \/ DoLightness(o)
        \/ DoShiftvalue(o) \/ DoShiftlightness(o)
        \/ DoLuma(o) \/ DoShiftluma(o)
        \/ DoMix(o) \/ DoMixArg(o)

Spec == Init /\ [][Next]_vars

\* ------------------------------------------------------------------------
\* The conversions on their own: a triple from a grid, taken there and back
\* ------------------------------------------------------------------------

\* The grid has the triples of n / GridN, n in 0..GridN.
GridN == 4

Grid == {Rat(n, GridN) : n \in 0..GridN}

InitConv ==
    /\ heap \in {[o \in Objects |-> IF o = 1 THEN <<r, g, b>> ELSE __colour] :
                    r \in Grid, g \in Grid, b \in Grid}
    /\ exists = {1}
    /\ steps = 0
    /\ last = [op |-> "none", obj |-> 0, pre |-> [o \in Objects |-> __colour],
               out |-> "none", ret |-> 0, a |-> <<>>, rng |-> <<>>,
               flag |-> FALSE, n |-> 0]

\* a: the triple that came back; rng: the triple in the other colour space
Converted(op, there, back) ==
    /\ steps = 0
    /\ last' = [last EXCEPT !.op = op, !.obj = 1, !.pre = heap,
                            !.out = IF IsRaised(back) THEN "raise" ELSE "self",
                            !.a = back, !.rng = there]
    /\ steps' = 1
    /\ UNCHANGED <<heap, exists>>

ThereAndBackHsv ==
    Converted("hsvtorgb(rgbtohsv)", rgbtohsv(heap[1]), hsvtorgb(rgbtohsv(heap[1])))

ThereAndBackHsl ==
    Converted("hsltorgb(rgbtohsl)", rgbtohsl(heap[1]), hsltorgb(rgbtohsl(heap[1])))

ThereAndBackYiq ==
    Converted("yiqtorgb(rgbtoyiq)", rgbtoyiq(heap[1]), yiqtorgb(rgbtoyiq(heap[1])))

NextConv == ThereAndBackHsv \/ ThereAndBackHsl \/ ThereAndBackYiq

SpecConv == InitConv /\ [][NextConv]_vars

\* ------------------------------------------------------------------------
\* Hexadecimal strings on their own: a string is parsed, the colour is
\* written back as a string
\* ------------------------------------------------------------------------

\* The strings are an optional "#", up to MaxHexLen characters of HexAlphabet
\* and an optional trailing character.
MaxHexLen == 6

HexAlphabet == {"0", "c", "E", "g"}

HexInputs ==
    {p \o w \o t : p \in {<<>>, <<"#">>},
                   w \in UNION {[1..n -> HexAlphabet] : n \in 0..MaxHexLen},
                   t \in {<<>>, <<"\n">>, <<" ">>}}

\* Channels given as numbers: 17 k / 255, and others in between
HexChannels == {Zero, Rat(1, 15), Rat(1, 7), Rat(1, 3), Rat(1, 2), Rat(4, 5), One}

InitHex ==
    /\ heap = [o \in Objects |-> __colour]
    /\ exists = {1}
    /\ steps = 0
    /\ last \in {[op |-> "none", obj |-> 0, pre |-> [o \in Objects |-> __colour],
                  out |-> "none", ret |-> 0, a |-> s, rng |-> <<>>,
                  flag |-> FALSE, n |-> 0] : s \in HexInputs}

\* Object 1 is set: r is what the setter yields.
HexCalled(op, r) ==
    /\ heap' = Commit(heap, 1, r.col)
    /\ last' = [last EXCEPT !.op = op, !.obj = 1, !.pre = heap, !.out = r.out]
    /\ steps' = 1
    /\ UNCHANGED exists

\* Colour.hex(s) with the string of the initial state
DecodeHex ==
    /\ steps = 0
    /\ HexCalled("hex", hex_set(heap[1], last.a))

\* Colour.rgb(v): a colour that no string gives (the string is the empty one)
FillHex ==
    /\ steps = 0
    /\ last.a = <<>>
    /\ \E r \in HexChannels, g \in HexChannels, b \in HexChannels :
           HexCalled("rgb", rgb_set(heap[1], <<r, g, b>>, Zero, One))

\* Colour.hex(hash=..., allowshort=..., forceshort=...) of the colour just set
EncodeHex ==
    /\ steps = 1
    /\ last.out = "self"
    /\ \E hashed \in BOOLEAN, allowshort \in BOOLEAN, forceshort \in BOOLEAN :
           last' = [last EXCEPT !.op = "hex()", !.pre = heap,
                                !.rng = <<hashed, allowshort, forceshort>>,
                                !.ret = hex_get(heap[1], hashed, allowshort,
                                                forceshort)]
    /\ steps' = 2
    /\ UNCHANGED <<heap, exists>>

NextHex == DecodeHex \/ FillHex \/ EncodeHex

SpecHex == InitHex /\ [][NextHex]_vars

\* ------------------------------------------------------------------------
\* Named colours on their own: a colour is set by name, then looked up
\* ------------------------------------------------------------------------

UpperCh(ch) ==
    IF \E k \in 1..Len(Lowers) : Lowers[k] = ch
    THEN Uppers[CHOOSE k \in 1..Len(Lowers) : Lowers[k] = ch]
    ELSE ch

\* Every name of the table in lower case, in upper case, capitalised and
\* with every other letter in upper case; and strings that are no names: a
\* name with a space after it, a name without its last letter, the empty
\* string, hexadecimal strings.
Css3Inputs ==
    UNION {{CSS3[k][1],
            [x \in 1..Len(CSS3[k][1]) |-> UpperCh(CSS3[k][1][x])],
            [x \in 1..Len(CSS3[k][1]) |->
                IF x = 1 THEN UpperCh(CSS3[k][1][x]) ELSE CSS3[k][1][x]],
            [x \in 1..Len(CSS3[k][1]) |->
                IF x % 2 = 0 THEN UpperCh(CSS3[k][1][x]) ELSE CSS3[k][1][x]],
            CSS3[k][1] \o <<" ">>,
            SubSeq(CSS3[k][1], 1, Len(CSS3[k][1]) - 1)} : k \in 1..Len(CSS3)}
    \cup {<<>>, <<"#", "f", "f", "f">>, <<"0", "0", "f", "f", "f", "f">>}

\* The colour before the call: black, one that has no name, one that is
\* red once rounded to bytes
Css3Colours == {__colour, <<Rat(4, 5), One, Rat(1, 10)>>,
                <<Rat(999, 1000), Rat(1, 1000), Zero>>}

InitCss3 ==
    /\ heap \in {[o \in Objects |-> IF o = 1 THEN c ELSE __colour] :
                    c \in Css3Colours}
    /\ exists = {1}
    /\ steps = 0
    /\ last \in {[op |-> "none", obj |-> 0, pre |-> [o \in Objects |-> __colour],
                  out |-> "none", ret |-> 0, a |-> s, rng |-> <<>>,
                  flag |-> FALSE, n |-> 0] : s \in Css3Inputs}

\* Object 1 is set by name: r is what the setter yields.
Css3Called(r) ==
    /\ heap' = Commit(heap, 1, r.col)
    /\ last' = [last EXCEPT !.op = "css3", !.obj = 1, !.pre = heap,
                            !.out = r.out]
    /\ steps' = 1
    /\ UNCHANGED exists

\* Colour.css3(name) with the string of the initial state
NameCss3 ==
    /\ steps = 0
    /\ Css3Called(css3_set(heap[1], last.a))

\* Colour.css3(): k is the place in the table of the name returned, or 0.
\* flag: the colour is the one the name last.a has just set.
Css3Found(k) ==
    /\ last' = [last EXCEPT !.op = "css3()", !.obj = 1, !.pre = heap,
                            !.flag = (last.op = "css3" /\ last.out = "self"),
                            !.out = "value", !.ret = KeyAt(k), !.n = k]
    /\ steps' = 2
    /\ UNCHANGED <<heap, exists>>

LookupCss3 ==
    /\ steps < 2
    /\ Css3Found(css3_index(heap[1]))

NextCss3 == NameCss3 \/ LookupCss3

SpecCss3 == InitCss3 /\ [][NextCss3]_vars

\* ------------------------------------------------------------------------
\* The getters on their own: a colour is read in a range; what yiq() gave
\* is given back to yiq(...)
\* ------------------------------------------------------------------------

\* Ranges for the values of 0~1, for the hue and for I and Q
UnitRanges == {<<Zero, One, TRUE, TRUE>>, <<R(0), R(1), FALSE, FALSE>>,
               <<R(0), R(100), FALSE, FALSE>>, <<R(0), R(255), FALSE, FALSE>>,
               <<R(10), R(30), FALSE, FALSE>>, <<R(10), R(30), TRUE, TRUE>>,
               <<R(0), R(100), FALSE, TRUE>>}

HueRanges == {<<R(0), R(360), TRUE, TRUE>>, <<R(0), R(360), FALSE, FALSE>>,
              <<R(0), R(100), FALSE, FALSE>>, <<Zero, One, TRUE, TRUE>>}

IqRanges == {<<R(-1), One, TRUE, TRUE>>, <<R(-1), R(1), FALSE, FALSE>>,
             <<R(-100), R(100), TRUE, TRUE>>, <<R(-255), R(255), FALSE, FALSE>>,
             <<R(0), R(100), TRUE, TRUE>>}

InitGet ==
    /\ heap \in {[o \in Objects |-> IF o = 1 THEN <<r, g, b>> ELSE __colour] :
                    r \in Grid, g \in Grid, b \in Grid}
    /\ exists = {1}
    /\ steps = 0
    /\ last = [op |-> "none", obj |-> 0, pre |-> [o \in Objects |-> __colour],
               out |-> "none", ret |-> 0, a |-> <<>>, rng |-> <<>>,
               flag |-> FALSE, n |-> 0]

\* A getter of object 1 returns got; rng: the ranges it was called with
Got(op, got, rng) ==
    /\ steps = 0
    /\ last' = [last EXCEPT !.op = op, !.obj = 1, !.pre = heap,
                            !.out = "value", !.ret = got, !.rng = rng]
    /\ steps' = 1
    /\ UNCHANGED <<heap, exists>>

GetRgb ==
    \E r \in UnitRanges :
        Got("rgb()", rgb_get(heap[1], r[1], r[2], r[3], r[4]), <<r>>)

GetHsv ==
    \E hr \in HueRanges, r \in UnitRanges :
        Got("hsv()", __hsx_get_scaled(heap[1], FALSE, hr, r), <<hr, r>>)

GetHsl ==
    \E hr \in HueRanges, r \in UnitRanges :
        Got("hsl()", __hsx_get_scaled(heap[1], TRUE, hr, r), <<hr, r>>)

GetYiq ==
    \E r \in UnitRanges, iqr \in IqRanges :
        Got("yiq()", yiq_get_scaled(heap[1], r, iqr), <<r, iqr>>)

GetGrey ==
    \E r \in UnitRanges : Got("grey()", grey_get(heap[1], r), <<r>>)

\* Object 1 is set to what yiq() returned: r is what the setter yields.
YiqGivenBack(r) ==
    /\ heap' = Commit(heap, 1, r.col)
    /\ last' = [last EXCEPT !.op = "yiq(yiq())", !.pre = heap, !.out = r.out,
                            !.a = last.ret]
    /\ steps' = 2
    /\ UNCHANGED exists

\* Colour.yiq(t, ...) with the tuple t and the ranges of the yiq() before
SetYiqBack ==
    /\ steps = 1
    /\ last.op = "yiq()"
    /\ YiqGivenBack(yiq_set(heap[1], last.ret, last.rng[1][1], last.rng[1][2],
                            last.rng[2][1], last.rng[2][2]))

NextGet == GetRgb \/ GetHsv \/ GetHsl \/ GetYiq \/ GetGrey \/ SetYiqBack

SpecGet == InitGet /\ [][NextGet]_vars

\* ------------------------------------------------------------------------
\* Properties
\* ------------------------------------------------------------------------

Pre  == last.pre[last.obj]
Post == heap[last.obj]
Black == <<Zero, Zero, Zero>>
White == <<One, One, One>>
Blue  == <<Zero, Zero, One>>

\* C1: every object's stored triple has its three channels in [0, 1], after
\* construction and after every call, whatever the call was given.
C1_ChannelsInUnit == \A o \in Objects : \A k \in 1..3 : InUnit(heap[o][k])

\* luma(y) succeeded although the channels had to be clamped to stay in range
C1_Witness ==
    /\ last.op = "luma"
    /\ last.out = "self"
    /\ luma_get(Post) # last.a[1]

\* C2: a call that ends in an error leaves the stored triple as it was,
\* also when the method is made of two steps (hash, the perceptual setters).
C2_RejectedUnchanged ==
    last.out \in {"raise", "error"} => heap = last.pre

\* hash() with maxy = 2: the first step (hsv) or the second (luma) rejects
C2_Witness ==
    /\ last.op = "hash"
    /\ last.out = "raise"
    /\ last.a[6] = R(2)
    /\ last.a[3] = Rat(2, 10)

ShiftOps == {"shiftsaturation_hsv", "shiftsaturation_hsl", "shiftvalue",
             "shiftlightness", "shiftluma", "shiftintensity"}

OutOfRange ==
    \/ last.op \in ShiftOps /\ (RLt(last.a[1], R(-1)) \/ RGt(last.a[1], One))
    \/ last.op = "mix" /\ (RLt(last.a[1], Zero) \/ RGt(last.a[1], One))

\* C3: a shift outside [-1, 1], or a mix proportion outside [0, 1], ends in
\* an exception that reaches the caller.
C3_OutOfRangeRaises == OutOfRange => last.out = "raise"

\* C3, what the code does: the call hands back an exception object, the
\* colour untouched.
C3_OutOfRangeReturnsError ==
    OutOfRange /\ (last.op = "mix" => last.n # 0 \/ last.out # "raise")
        => last.out = "error" /\ heap = last.pre

C3_Witness == OutOfRange /\ last.op = "shiftluma" /\ last.out = "error"

\* C4: a constructor call with two or more arguments fails and makes no
\* object; one with no argument makes black.
C4_ConstructorArity ==
    last.op = "__init__" =>
        /\ last.n >= 2 => /\ last.out = "raise"
                          /\ last.obj \notin exists
                          /\ heap = last.pre
        /\ last.n = 0 => /\ last.out = "self"
                         /\ last.obj \in exists
                         /\ Post = Black

C4_Witness == last.op = "__init__" /\ last.n = 2 /\ last.out = "raise"

Replay(a, flag) ==
    CASE last.op \in {"hsv", "hsv100", "hsv255"} ->
            hsv(Pre, a, flag, last.rng[1], last.rng[2], last.rng[3], last.rng[4])
      [] last.op \in {"hsl", "hsl100", "hsl255"} ->
            hsl(Pre, a, flag, last.rng[1], last.rng[2], last.rng[3], last.rng[4])
      [] last.op = "hue" -> hue_set(Pre, a[1], flag)
      [] last.op = "shifthue" -> shifthue(Pre, a[1], flag)
      [] last.op = "saturation_hsv" -> saturation_hsv(Pre, a[1], flag)
      [] last.op = "saturation_hsl" -> saturation_hsl(Pre, a[1], flag)
      [] last.op = "shiftsaturation_hsv" -> shiftsaturation_hsv(Pre, a[1], flag)
      [] last.op = "shiftsaturation_hsl" -> shiftsaturation_hsl(Pre, a[1], flag)

HueOnly ==
    \/ last.op = "hue"
    \/ /\ last.op = "hsv"
       /\ Len(last.a) = 3
       /\ ~IsNone(last.a[1]) /\ IsNone(last.a[2]) /\ IsNone(last.a[3])

\* C6: setting the hue alone, perceptual off, leaves the HSV saturation and
\* value as they were.
C6_HueKeepsSaturationValue ==
    HueOnly /\ ~last.flag /\ last.out = "self" =>
        /\ rgbtohsv(Post)[2] = rgbtohsv(Pre)[2]
        /\ rgbtohsv(Post)[3] = rgbtohsv(Pre)[3]

C6_Witness ==
    /\ HueOnly /\ ~last.flag /\ last.out = "self"
    /\ Post # Pre
    /\ rgbtohsv(Pre)[2] \notin {Zero, One}

PerceptualOps == {"hsv", "hsl", "hsv100", "hsv255", "hsl100", "hsl255",
                  "hue", "shifthue", "saturation_hsv", "saturation_hsl",
                  "shiftsaturation_hsv", "shiftsaturation_hsl"}

Perceptual == last.op \in PerceptualOps /\ last.flag /\ last.out = "self"

\* The triple the same call stores with perceptual off
Plain == Replay(last.a, FALSE).col

\* The luma to give back to it
LumaGap == RSub(luma_get(Pre), luma_get(Plain))

NoClamping == \A k \in 1..3 : InUnit(RAdd(Plain[k], LumaGap))

\* C7 as stated: a perceptual hue or saturation call leaves the luma as it
\* was.
C7_LumaKept == Perceptual => luma_get(Post) = luma_get(Pre)

\* C7: a perceptual call stores what the plain call stores with every
\* channel moved by the luma lost and clamped to [0, 1]; the luma is as it
\* was, and the hue that of the plain call, when no channel is clamped.
\* Blue turned by 30 degrees is (0.35, 0, 0.85), of luma 0.1985 and not
\* 0.11, of hue 4500/17 (264.7) and not 270.
C7_LumaKeptUnlessClamped ==
    Perceptual =>
        /\ Post = [k \in 1..3 |-> Clamp01(RAdd(Plain[k], LumaGap))]
        /\ NoClamping => /\ luma_get(Post) = luma_get(Pre)
                         /\ Den(Post) <= MaxDen =>
                                rgbtohsv(Post)[1] = rgbtohsv(Plain)[1]
                         /\ yiq_get(Post)[2] = yiq_get(Plain)[2]
                         /\ yiq_get(Post)[3] = yiq_get(Plain)[3]
        /\ Pre = Blue /\ last.op = "shifthue" /\ last.a[1] = R(30) =>
              /\ Post = <<Rat(35, 100), Zero, Rat(85, 100)>>
              /\ luma_get(Pre) = Rat(11, 100)
              /\ luma_get(Post) = Rat(1985, 10000)
              /\ rgbtohsv(Plain)[1] = R(270)
              /\ rgbtohsv(Post)[1] = Rat(4500, 17)

\* the luma was put back, nothing clamped
C7_Witness ==
    /\ Perceptual /\ last.op = "shifthue"
    /\ NoClamping
    /\ Post # Plain
    /\ Post # Pre

\* blue, turned by 30 degrees
C7_BlueWitness ==
    /\ Perceptual /\ last.op = "shifthue"
    /\ Pre = Blue /\ last.a[1] = R(30)

\* The whole turns added to a hue
MaxTurns == 1

HueGiven ==
    /\ last.op \in {"hsv", "hsl", "hsv100", "hsv255", "hsl100", "hsl255", "hue"}
    /\ Len(last.a) \in {1, 3}
    /\ ~IsNone(last.a[1])
    /\ last.rng[1] # last.rng[2]

\* C8: a hue and the same hue a whole number of turns (hmax - hmin) away
\* have the same effect.
C8_HueCircular ==
    HueGiven =>
        \A k \in (0 - MaxTurns)..MaxTurns :
            LET turn == RSub(last.rng[2], last.rng[1])
                h == RAdd(last.a[1], RMul(R(k), turn))
            IN  Replay([last.a EXCEPT ![1] = h], last.flag) = Ret(Post, last.out)

C8_Witness ==
    /\ HueGiven /\ last.op = "hsv" /\ last.a[1] = R(380)
    /\ last.out = "self"
    /\ Post # Pre

\* C9: mix(target, p), p in [0, 1], stores channel + (target - channel) * p:
\* nothing changes at 0, the target's triple at 1, mid grey from black and
\* white at 0.5; the target is not changed.
C9_Mix ==
    /\ last.op = "mix"
    /\ InUnit(last.a[1])
    /\ (last.n # 0 \/ last.out # "raise")
    => /\ last.out = "self"
       /\ \A k \in 1..3 :
            Post[k] = RAdd(Pre[k], RMul(RSub(last.rng[k], Pre[k]), last.a[1]))
       /\ last.a[1] = Zero => Post = Pre
       /\ last.a[1] = One => Post = last.rng
       /\ Pre = Black /\ last.rng = White /\ last.a[1] = H => Post = <<H, H, H>>
       /\ \A o \in Objects \ {last.obj} : heap[o] = last.pre[o]

\* two objects, one mixed a quarter of the way to the other
C9_Witness ==
    /\ last.op = "mix" /\ last.out = "self"
    /\ last.n \in Objects \ {last.obj}
    /\ last.a[1] = Rat(1, 4)
    /\ Post # Pre

\* C10: a triple taken to HSV, HSL or YIQ and back is the triple again.
C10_ThereAndBack == last.op # "none" => last.a = last.pre[1]

C10_Witness ==
    /\ last.op = "yiqtorgb(rgbtoyiq)"
    /\ last.a = <<Rat(1, 4), H, Rat(3, 4)>>
    /\ last.pre[1] = last.a

\* The documented forms of a hexadecimal string: an optional "#", then three
\* or six hexadecimal digits of either case, and nothing else
WellFormed(s) ==
    LET body == IF Len(s) > 0 /\ s[1] = "#" THEN Tail(s) ELSE s
    IN  /\ Len(body) \in {3, 6}
        /\ \A k \in 1..Len(body) :
              body[k] \in {"0", "1", "2", "3", "4", "5", "6", "7", "8", "9",
                           "a", "b", "c", "d", "e", "f",
                           "A", "B", "C", "D", "E", "F"}

\* "#" and six lowercase digits, the digits of a short string doubled
Normalised(s) ==
    LET body == IF s[1] = "#" THEN Tail(s) ELSE s
        six  == IF Len(body) = 3
                THEN [k \in 1..6 |-> body[(k + 1) \div 2]] ELSE body
    IN  <<"#">> \o [k \in 1..6 |-> LowerCh(six[k])]

\* C11: for every well-formed hexadecimal string s, rgbtohex(hextorgb(s)) is
\* the normalised form of s: "#", then six lowercase digits, the digits of a
\* three-digit string doubled.
C11_HexRoundTrip ==
    (last.op = "hex()" /\ WellFormed(last.a) /\ last.rng = <<TRUE, FALSE, FALSE>>)
        => last.ret = Normalised(last.a)

C11_Witness ==
    /\ last.op = "hex()"
    /\ last.a = <<"#", "c", "E", "0">>
    /\ last.rng = <<TRUE, FALSE, FALSE>>
    /\ last.ret = <<"#", "c", "c", "e", "e", "0", "0">>

\* C12: with allowshort (and not forceshort) the string has three digits
\* exactly when each channel, rounded to 0..255, is a multiple of 17, and six
\* otherwise; hextorgb reads from it the triple it reads from the string
\* written without allowshort.
C12_ShortWhenLossless ==
    (last.op = "hex()" /\ last.rng[2] /\ ~last.rng[3]) =>
        LET digits == IF last.rng[1] THEN Tail(last.ret) ELSE last.ret
            long   == rgbtohex(heap[1], last.rng[1], FALSE, FALSE)
            exact  == \A x \in 1..3 : round(RMul(heap[1][x], R(255))) % 17 = 0
        IN  /\ Len(digits) = (IF exact THEN 3 ELSE 6)
            /\ ~IsRaised(hextorgb(last.ret))
            /\ hextorgb(last.ret) = hextorgb(long)

C12_Witness ==
    /\ last.op = "hex()"
    /\ last.rng = <<TRUE, TRUE, FALSE>>
    /\ heap[1] = <<Rat(1, 15), Rat(1, 3), Rat(4, 5)>>
    /\ last.ret = <<"#", "1", "5", "c">>

\* C13: Colour.hex(s) succeeds exactly on the well-formed strings; every
\* other string, one with an extra trailing character included, is rejected
\* with an error and the colour is left as it was.
C13_HexAcceptsExactly ==
    last.op = "hex" =>
        IF WellFormed(last.a) THEN last.out = "self"
        ELSE last.out = "raise" /\ heap = last.pre

\* A string with a trailing newline is accepted.
C13_Witness ==
    /\ last.op = "hex"
    /\ last.a = <<"c", "c", "c", "c", "c", "c", "\n">>
    /\ last.out = "self"
    /\ heap[1] = <<Rat(4, 5), Rat(4, 5), Rat(4, 5)>>

\* The places in the table of the name s, read without regard to case
Named(s) ==
    {k \in 1..Len(CSS3) : CSS3[k][1] = [x \in 1..Len(s) |-> LowerCh(s[x])]}

Aqua == <<"a", "q", "u", "a">>
Cyan == <<"c", "y", "a", "n">>

\* C14: css3(name) reads the name without regard to case: for every name of
\* the table, in any case, the colour becomes the one of the entry's
\* hexadecimal string ("aqua" and "cyan" both give 00ffff); every other
\* string fails with an error (and leaves the colour).
C14_ForwardLookup ==
    last.op = "css3" =>
        /\ IF Named(last.a) # {}
           THEN /\ last.out = "self"
                /\ \A k \in Named(last.a) :
                      rgbtohex(Post, FALSE, FALSE, FALSE) = CSS3[k][2]
           ELSE last.out = "raise" /\ heap = last.pre
        /\ (Named(last.a) \cap (Named(Aqua) \cup Named(Cyan)) # {})
              => Post = <<Zero, One, One>>

C14_Witness ==
    /\ last.op = "css3"
    /\ last.a = <<"C", "Y", "A", "N">>
    /\ last.out = "self"
    /\ Pre = <<Rat(4, 5), One, Rat(1, 10)>>
    /\ Post = <<Zero, One, One>>

\* A colour as three bytes
AsBytes(c) == [x \in 1..3 |-> round(RMul(c[x], R(255)))]

\* The bytes of every entry of the table
TableBytes == [k \in 1..Len(CSS3) |-> AsBytes(hextorgb(CSS3[k][2]))]

\* C15: css3() returns the first name, in the order of the table, whose
\* colour has the bytes of this colour, and None (no error) when there is
\* none; it leaves the colour as it was.  For a colour just set by a name of
\* the table it returns one name, whose hexadecimal string is that of the
\* name given: "aqua" for both "aqua" and "cyan".
C15_ReverseLookup ==
    last.op = "css3()" =>
        LET same == {k \in 1..Len(CSS3) : TableBytes[k] = AsBytes(heap[1])}
        IN  /\ heap = last.pre
            /\ last.out = "value"
            /\ IF same = {} THEN last.n = 0 /\ last.ret = None
               ELSE /\ last.n \in same
                    /\ \A j \in same : last.n <= j
                    /\ last.ret = CSS3[last.n][1]
            /\ last.flag =>
                  /\ last.n # 0
                  /\ \A k \in Named(last.a) : CSS3[last.n][2] = CSS3[k][2]
            /\ (last.flag /\ Named(last.a) \cap (Named(Aqua) \cup Named(Cyan)) # {})
                  => last.ret = Aqua

\* "cyan" was set; "aqua" is returned
C15_Witness ==
    /\ last.op = "css3()"
    /\ last.flag
    /\ last.a = Cyan
    /\ last.ret = Aqua
    /\ heap[1] = <<Zero, One, One>>

\* A colour that has no name: None is returned
C15_NoneWitness ==
    /\ last.op = "css3()"
    /\ heap[1] = <<Rat(4, 5), One, Rat(1, 10)>>
    /\ last.n = 0
    /\ last.ret = None

\* Receivers to compare with
Receivers == {Black, White, <<Rat(1, 4), H, Rat(3, 4)>>}

\* C16: what hash does depends on its input and its bounds alone: whatever
\* colour the object had, the call ends as it ends on any other receiver, and
\* with the same colour.
C16_HashIgnoresReceiver ==
    last.op = "hash" =>
        \A c \in Receivers :
            /\ hash(c, HashInputs[last.n], last.a[1], last.a[2], last.a[3],
                    last.a[4], last.a[5], last.a[6]).out = last.out
            /\ last.out = "self" =>
                  hash(c, HashInputs[last.n], last.a[1], last.a[2], last.a[3],
                       last.a[4], last.a[5], last.a[6]).col = Post

\* "tremby" hashed on an object that was red
C16_Witness ==
    /\ last.op = "hash"
    /\ last.out = "self"
    /\ last.n = 1
    /\ IsNone(last.a[1])
    /\ Pre = <<One, Zero, Zero>>
    /\ Post # Pre

\* C17: for every input and every luma window with 0 <= miny <= maxy <= 1
\* that hash accepts, the colour hash leaves has the luma y taken from the
\* digest, which is within miny~maxy.
C17_HashLuma ==
    (/\ last.op = "hash"
     /\ last.out = "self"
     /\ RLe(Zero, last.a[5]) /\ RLe(last.a[5], last.a[6]) /\ RLe(last.a[6], One))
        => /\ luma_get(Post) = last.rng[3]
           /\ RLe(last.a[5], luma_get(Post))
           /\ RLe(luma_get(Post), last.a[6])

\* "bill" with the default windows: a channel is clamped, the luma is not y
C17_Witness ==
    /\ last.op = "hash"
    /\ last.out = "self"
    /\ last.n = 4
    /\ last.a = <<None, None, Rat(2, 10), One, Rat(3, 10), Rat(7, 10)>>
    /\ last.rng[3] = Rat(27, 40)
    /\ Post[1] = One
    /\ RLt(luma_get(Post), last.rng[3])

\* x brought into 0~360
Turned(x) == RSub(x, R(360 * (x[1] \div (x[2] * 360))))

\* h is on the arc that goes from minh upward to maxh
OnArc(h, minh, maxh) == RLe(Turned(RSub(h, minh)), RSub(maxh, minh))

\* C18: for every hue window minh~maxh given to hash, bounds outside 0~360
\* included, the hue given to the HSV setter is on the arc from minh upward
\* to maxh; a window across 0 gives hues near 0.
C18_HashHueOnArc ==
    (last.op = "hash" /\ last.out = "self" /\ ~IsNone(last.a[1]))
        => OnArc(last.rng[1], last.a[1], last.a[2])

\* "tremby" with the window 340~380: the hue is 60
C18_Witness ==
    /\ last.op = "hash"
    /\ last.out = "self"
    /\ last.n = 1
    /\ last.a[1] = R(340) /\ last.a[2] = R(380)
    /\ last.rng[1] = R(60)

Getters == {"rgb()", "hsv()", "hsl()", "yiq()", "grey()"}

\* The components a getter scales, before it scales them
Unscaled(op, c) ==
    CASE op = "rgb()" -> c
      [] op = "hsv()" -> <<RDiv(rgbtohsv(c)[1], R(360)), rgbtohsv(c)[2],
                           rgbtohsv(c)[3]>>
      [] op = "hsl()" -> <<RDiv(rgbtohsl(c)[1], R(360)), rgbtohsl(c)[2],
                           rgbtohsl(c)[3]>>
      [] op = "yiq()" -> rgbtoyiq(c)
      [] op = "grey()" -> <<intensity_get(c)>>

\* The range component k was scaled to (I and Q are left as they are in
\* the range -1~1, and scaled like the others in any other range)
RangeOf(op, rng, k) ==
    IF op \in {"rgb()", "grey()"} \/ k = 1 THEN rng[1] ELSE rng[2]

\* C19: for each of rgb(), hsv(), hsl(), yiq() and grey(), a component
\* scaled to a range of two integers is returned rounded to the nearest
\* integer, and one scaled to a range with a float bound is returned
\* unrounded; so it is for every pair of integers, 0 and 1 for rgb() included.
C19_Rounding ==
    (last.op \in Getters /\ last.ret # PyFalse) =>
        \A k \in 1..Len(Unscaled(last.op, heap[1])) :
            LET r     == RangeOf(last.op, last.rng, k)
                x     == IF last.op = "grey()" THEN last.ret ELSE last.ret[k]
                u     == Unscaled(last.op, heap[1])[k]
                exact == IF last.op = "yiq()" /\ k > 1 /\ r[1] = R(-1) /\ r[2] = One
                         THEN u
                         ELSE RAdd(r[1], RMul(u, RSub(r[2], r[1])))
            IN  IF ~r[3] /\ ~r[4]
                THEN /\ x[2] = 1
                     /\ RLe(RSub(exact, x), H) /\ RLe(RSub(x, exact), H)
                ELSE x = exact

\* rgb(min=0, max=1) returns the channels as they are
C19_Witness ==
    /\ last.op = "rgb()"
    /\ last.rng = <<<<R(0), R(1), FALSE, FALSE>>>>
    /\ heap[1] = <<Rat(1, 4), H, Rat(3, 4)>>
    /\ last.ret = heap[1]

\* C20: for every colour and every range iqmin < iqmax of floats, the I and
\* Q that yiq() returns are within iqmin~iqmax, and yiq(...) given the tuple
\* returned and the same ranges succeeds and leaves the colour as it was.
C20_YiqThereAndBack ==
    (/\ last.op = "yiq(yiq())"
     /\ last.rng[1][3] /\ last.rng[1][4]
     /\ last.rng[2][3] /\ last.rng[2][4]
     /\ RLt(last.rng[2][1], last.rng[2][2]))
        => /\ \A k \in 2..3 : /\ RLe(last.rng[2][1], last.a[k])
                              /\ RLe(last.a[k], last.rng[2][2])
           /\ last.out = "self"
           /\ heap = last.pre

\* Blue read with I and Q in -100.0~100.0: I is below -100 and is rejected
C20_Witness ==
    /\ last.op = "yiq(yiq())"
    /\ last.pre[1] = Blue
    /\ last.rng = <<<<Zero, One, TRUE, TRUE>>, <<R(-100), R(100), TRUE, TRUE>>>>
    /\ RLt(last.a[2], R(-100))
    /\ last.out = "raise"

\* What hsv(...) of the last call was given, in the default ranges: the hue
\* in degrees, saturation and value in 0~1
InDegrees ==
    <<RMul(R(360), RDiv(RSub(last.a[1], last.rng[1]),
                        RSub(last.rng[2], last.rng[1]))),
      RDiv(RSub(last.a[2], last.rng[3]), RSub(last.rng[4], last.rng[3])),
      RDiv(RSub(last.a[3], last.rng[3]), RSub(last.rng[4], last.rng[3]))>>

\* hsv(...) was called with a hue range other than 0~360, a hue x in
\* hmin~hmax (hmax excluded), and a saturation and a value above 0
HueInRange ==
    /\ last.op = "hsv"
    /\ ~last.flag
    /\ Len(last.rng) = 4
    /\ <<last.rng[1], last.rng[2]>> # <<R(0), R(360)>>
    /\ RLt(last.rng[1], last.rng[2])
    /\ RLe(last.rng[1], last.a[1]) /\ RLt(last.a[1], last.rng[2])
    /\ RLt(last.rng[3], last.a[2]) /\ RLe(last.a[2], last.rng[4])
    /\ RLt(last.rng[3], last.a[3]) /\ RLe(last.a[3], last.rng[4])

\* C21: hsv((x, s, v), hmin, hmax) with a hue range other than the default,
\* x in hmin~hmax and s, v above 0 gives the colour that the hue
\* 360 * (x - hmin) / (hmax - hmin) degrees gives in the default range, and
\* the hue read back in the same range is x.
C21_HueRange ==
    HueInRange =>
        /\ last.out = "self"
        /\ Post = hsv(Pre, InDegrees, FALSE, R(0), R(360), Zero, One).col
        /\ __hsx_get_scaled(Post, FALSE,
                            <<last.rng[1], last.rng[2], TRUE, TRUE>>,
                            <<Zero, One, TRUE, TRUE>>)[1] = last.a[1]

\* hsv((0.9, 0.5, 0.5), hmin=0.0, hmax=1.0): the hue is 0.9 degrees, not 324
C21_Witness ==
    /\ HueInRange
    /\ last.a = <<Rat(9, 10), H, H>>
    /\ last.rng = <<R(0), R(1), Zero, One>>
    /\ last.out = "self"
    /\ hue_get(Post) = Rat(9, 10)

\* ---- shiftsaturation_hsv, shiftsaturation_hsl (src/colour.py 747-777) ----

SatShifted == last.op \in {"shiftsaturation_hsv", "shiftsaturation_hsl"}
              /\ ~last.flag
              /\ RLe(R(-1), last.a[1]) /\ RLe(last.a[1], One)

SatOld == __saturation_hsx_get(Pre, last.op = "shiftsaturation_hsl")

SatNew == __saturation_hsx_get(Post, last.op = "shiftsaturation_hsl")

SatExpected ==
    IF RGt(last.a[1], Zero) THEN RAdd(SatOld, RMul(RSub(One, SatOld), last.a[1]))
    ELSE IF RLt(last.a[1], Zero) THEN RMul(SatOld, RAdd(One, last.a[1]))
    ELSE SatOld

\* A colour whose saturation can be told from its RGB triple: HSV value above
\* 0, or HSL lightness strictly between 0 and 1.
SatCarried ==
    IF last.op = "shiftsaturation_hsl"
    THEN /\ RLt(Zero, __value_lightness_get(Pre, TRUE))
         /\ RLt(__value_lightness_get(Pre, TRUE), One)
    ELSE RLt(Zero, __value_lightness_get(Pre, FALSE))

C22_BlackWitness ==
    /\ SatShifted /\ last.op = "shiftsaturation_hsv" /\ last.a[1] = One
    /\ Pre = Black /\ Post = Black

\* ---- shiftvalue, shiftlightness (src/colour.py 883-923) ----

BrightShifted == last.op \in {"shiftvalue", "shiftlightness"}
                 /\ RLe(R(-1), last.a[1]) /\ RLe(last.a[1], One)

BrightOld == __value_lightness_get(Pre, last.op = "shiftlightness")

BrightNew == __value_lightness_get(Post, last.op = "shiftlightness")

\* C23: for every colour and every p in [-1, 1], after shiftvalue(p) the HSV
\* value read back, and after shiftlightness(p) the HSL lightness read back,
\* is old + (1 - old) * p for p > 0 and old * (1 + p) for p < 0;
\* shiftlightness(1) gives white, shiftvalue(-1) and shiftlightness(-1) give
\* black, and p = 0 leaves the colour unchanged.
C23_ShiftBrightness ==
    BrightShifted =>
        /\ last.out = "self"
        /\ RGt(last.a[1], Zero) =>
             BrightNew = RAdd(BrightOld, RMul(RSub(One, BrightOld), last.a[1]))
        /\ RLt(last.a[1], Zero) =>
             BrightNew = RMul(BrightOld, RAdd(One, last.a[1]))
        /\ last.op = "shiftlightness" /\ last.a[1] = One => Post = White
        /\ last.a[1] = R(-1) => Post = Black
        /\ last.a[1] = Zero => Post = Pre

C23_Witness ==
    /\ BrightShifted /\ last.op = "shiftvalue" /\ last.a[1] = H
    /\ BrightOld = H /\ BrightNew = Rat(3, 4)
    /\ Pre[1] # Pre[2]

C23_WhiteWitness ==
    /\ BrightShifted /\ last.op = "shiftlightness" /\ last.a[1] = One
    /\ Pre # White /\ Pre[1] # Pre[2] /\ Post = White

\* ---- saturation_hsv, value (src/colour.py 721-732, 861-870) ----

SatSet == last.op = "saturation_hsv" /\ ~last.flag
          /\ RLe(Zero, last.a[1]) /\ RLe(last.a[1], One)

ValueSet == last.op = "value"
            /\ RLe(Zero, last.a[1]) /\ RLe(last.a[1], One)

C24_SatWitness ==
    /\ SatSet /\ last.a[1] = H
    /\ hue_get(Pre) # Zero /\ hue_get(Post) = hue_get(Pre)
    /\ __saturation_hsx_get(Pre, FALSE) = One
    /\ __saturation_hsx_get(Post, FALSE) = H

C24_HueLostWitness ==
    /\ SatSet /\ last.a[1] = Zero
    /\ hue_get(Pre) # Zero /\ hue_get(Post) = Zero

\* ---- achromatic colours (src/colour.py 610-618, 1023-1034) ----

Achromatic(c) == c[1] = c[2] /\ c[2] = c[3]

PlainHsx == <<<<R(0), R(360), TRUE, TRUE>>, <<Zero, One, TRUE, TRUE>>>>

\* C25: a colour is achromatic exactly when R = G = B: then rgbtohsv and
\* rgbtohsl report saturation exactly 0 and hue 0, and grey() returns the common
\* channel value; otherwise both saturations are non-zero and grey() returns
\* False.
C25_Achromatic ==
    /\ last.op \in {"hsv()", "hsl()"} /\ last.rng = PlainHsx =>
         /\ last.ret = _rgbtohsx(last.op = "hsl()", Pre)
         /\ Achromatic(Pre) => last.ret[1] = Zero /\ last.ret[2] = Zero
         /\ ~Achromatic(Pre) => /\ rgbtohsv(Pre)[2] # Zero
                                /\ rgbtohsl(Pre)[2] # Zero
                                /\ last.ret[2] # Zero
    /\ last.op = "grey()" /\ last.rng = <<<<Zero, One, TRUE, TRUE>>>> =>
         /\ Achromatic(Pre) => last.ret = Pre[1]
         /\ ~Achromatic(Pre) => last.ret = PyFalse

C25_Witness ==
    /\ last.op = "grey()" /\ last.rng = <<<<Zero, One, TRUE, TRUE>>>>
    /\ Pre = <<Rat(3, 4), Rat(3, 4), Rat(3, 4)>> /\ last.ret = Rat(3, 4)

C25_ChromaticWitness ==
    /\ last.op = "grey()" /\ last.rng = <<<<Zero, One, TRUE, TRUE>>>>
    /\ Pre = <<Rat(3, 4), Rat(3, 4), H>> /\ last.ret = PyFalse

C25_HslWitness ==
    /\ last.op = "hsl()" /\ last.rng = PlainHsx
    /\ Pre = <<H, H, H>> /\ last.ret = <<Zero, Zero, H>>

\* ---- luma (src/colour.py 925-938, 1054-1066) ----

FromRedHex == hex_set(__colour, <<"#", "f", "f", "0", "0", "0", "0">>).col

Weighted(c, wr, wg, wb) ==
    RAdd(RAdd(RMul(wr, c[1]), RMul(wg, c[2])), RMul(wb, c[3]))

PlainYiq == <<<<Zero, One, TRUE, TRUE>>, <<R(-1), One, TRUE, TRUE>>>>

LumaRead == last.op = "yiq()" /\ last.rng = PlainYiq

RedRead ==
    /\ \/ LumaRead
       \/ last.op = "rgb()" /\ last.rng = <<<<R(0), R(255), FALSE, FALSE>>>>
       \/ last.op = "hsv()" /\ last.rng = PlainHsx
    /\ Pre = FromRedHex

RedAsClaimed ==
    /\ last.op = "rgb()" => last.ret = <<R(255), R(0), R(0)>>
    /\ last.op = "hsv()" => last.ret = <<Zero, One, One>>

\* C26 (as stated): the luma reported for every colour is
\* Y = 0.299 R + 0.587 G + 0.114 B; the colour set from hex '#ff0000' has
\* rgb255 (255, 0, 0), HSV (0, 1, 1) and luma 0.299.
C26_Luma601 ==
    /\ LumaRead =>
         /\ last.ret[1] = luma_get(Pre)
         /\ luma_get(Pre) = Weighted(Pre, Rat(299, 1000), Rat(587, 1000), Rat(114, 1000))
    /\ RedRead => /\ RedAsClaimed
                  /\ luma_get(Pre) = Rat(299, 1000)

\* C26 (amended): the luma reported for every colour is
\* Y = 0.30 R + 0.59 G + 0.11 B, the weights of colorsys.rgb_to_yiq; the
\* colour set from hex '#ff0000' has rgb255 (255, 0, 0), HSV (0, 1, 1) and
\* luma 0.3.
C26_Luma ==
    /\ LumaRead =>
         /\ last.ret[1] = luma_get(Pre)
         /\ luma_get(Pre) = Weighted(Pre, Cent(30), Cent(59), Cent(11))
    /\ RedRead => /\ RedAsClaimed
                  /\ luma_get(Pre) = Rat(3, 10)

C26_Witness ==
    /\ LumaRead /\ Pre = FromRedHex /\ Pre = <<One, Zero, Zero>>
    /\ last.ret[1] = Rat(3, 10)

C26_MixedWitness ==
    /\ LumaRead /\ Pre = <<Rat(1, 4), H, Rat(3, 4)>>
    /\ last.ret[1] = Rat(181, 400)

C26_HsvWitness ==
    /\ RedRead /\ last.op = "hsv()" /\ last.ret = <<Zero, One, One>>

C26_Rgb255Witness ==
    /\ RedRead /\ last.op = "rgb()" /\ last.ret = <<R(255), R(0), R(0)>>

\* ---- intensity, shiftintensity (src/colour.py 796-847) ----

IntensitySet == last.op = "intensity"
                /\ RLe(Zero, last.a[1]) /\ RLe(last.a[1], One)

IntensityShifted == last.op = "shiftintensity"
                    /\ RLe(R(-1), last.a[1]) /\ RLe(last.a[1], One)

Toward(c, target, p) ==
    [k \in 1..3 |-> RAdd(c[k], RMul(RSub(target[k], c[k]), p))]

\* C27: for every colour and every i in [0, 1], after intensity(i) the mean of
\* the three RGB channels is i, the colour having been mixed toward white or
\* toward black; this includes a black or white current colour and i = 0 or
\* i = 1. shiftintensity(p) is mix(white, p) for p > 0 and mix(black, -p) for
\* p < 0.
C27_Intensity ==
    /\ IntensitySet =>
         /\ last.out = "self"
         /\ intensity_get(Post) = last.a[1]
         /\ \/ \E p \in {intensity_get(Pre)} :
                 /\ RLt(p, last.a[1])
                 /\ Post = Toward(Pre, White, RDiv(RSub(last.a[1], p), RSub(One, p)))
            \/ \E p \in {intensity_get(Pre)} :
                 /\ RGt(p, last.a[1])
                 /\ Post = Toward(Pre, Black, RDiv(RSub(p, last.a[1]), p))
            \/ Post = Pre
    /\ IntensityShifted =>
         /\ last.out = "self"
         /\ RGt(last.a[1], Zero) => Post = Toward(Pre, White, last.a[1])
         /\ RLt(last.a[1], Zero) => Post = Toward(Pre, Black, RNeg(last.a[1]))
         /\ last.a[1] = Zero => Post = Pre

C27_Witness ==
    /\ IntensitySet /\ last.a[1] = H
    /\ Pre[1] # Pre[2] /\ RLt(intensity_get(Pre), H)
    /\ intensity_get(Post) = H /\ Post[1] # Post[2]

C27_BlackWitness ==
    /\ IntensitySet /\ last.a[1] = Rat(1, 3)
    /\ Pre = Black /\ Post = <<Rat(1, 3), Rat(1, 3), Rat(1, 3)>>

C27_WhiteWitness ==
    /\ IntensitySet /\ last.a[1] = H
    /\ Pre = White /\ Post = <<H, H, H>>

C27_EdgeWitness ==
    /\ IntensitySet /\ last.a[1] = One
    /\ Pre[1] # Pre[2] /\ Post = White

C27_ShiftWitness ==
    /\ IntensityShifted /\ last.a[1] = Rat(-1, 2)
    /\ Pre[1] # Pre[2] /\ Post = Toward(Pre, Black, H) /\ Post # Pre

\* ------------------------------------------------------------------------
\* intensity, shiftintensity and hash on every colour of the grid
\* ------------------------------------------------------------------------

\* minh, maxh, mins, maxs, miny, maxy: the default window, and windows with
\* one bound outside 0~1 or with the bounds of a pair in the wrong order
GridWindows == {<<None, None, Rat(2, 10), One, Rat(3, 10), Rat(7, 10)>>,
                <<None, None, Rat(-1, 10), One, Rat(3, 10), Rat(7, 10)>>,
                <<None, None, Rat(11, 10), One, Rat(3, 10), Rat(7, 10)>>,
                <<None, None, Zero, Rat(-1, 10), Rat(3, 10), Rat(7, 10)>>,
                <<None, None, Rat(2, 10), Rat(3, 2), Rat(3, 10), Rat(7, 10)>>,
                <<None, None, Rat(2, 10), One, Rat(-1, 10), Rat(7, 10)>>,
                <<None, None, Rat(2, 10), One, Rat(11, 10), One>>,
                <<None, None, Rat(2, 10), One, Zero, Rat(-1, 10)>>,
                <<None, None, Rat(2, 10), One, Rat(3, 10), Rat(11, 10)>>,
                <<None, None, Rat(2, 10), One, H, R(2)>>,
                <<None, None, H, Rat(1, 4), Rat(3, 10), Rat(7, 10)>>,
                <<None, None, Rat(2, 10), One, Rat(7, 10), Rat(3, 10)>>}

DoHashWindow(o) ==
    /\ Callable(o)
    /\ \E n \in 1..Len(HashInputs), w \in GridWindows :
         Apply("hash", o,
               hash(heap[o], HashInputs[n], w[1], w[2], w[3], w[4], w[5], w[6]),
               w,
               HashTriple(HashInputs[n], HueBounds(w[1], w[2])[1],
                          HueBounds(w[1], w[2])[2], w[3], w[4], w[5], w[6]),
               FALSE, n)

NextGrid == DoIntensity(1) \/ DoShiftintensity(1) \/ DoHashWindow(1)

SpecGrid == InitGet /\ [][NextGrid]_vars

\* ---- hash's check of its windows (src/colour.py 659-672) ----

WindowInvalid ==
    \/ \E k \in 3..6 : RLt(last.a[k], Zero) \/ RGt(last.a[k], One)
    \/ RGt(last.a[3], last.a[4])
    \/ RGt(last.a[5], last.a[6])

\* C28: hash rejects every invalid window before it changes the colour:
\* whenever one of mins, maxs, miny, maxy is outside [0, 1], or mins > maxs, or
\* miny > maxy, the call fails with an error, for every input, and the colour
\* is unchanged.
C28_HashRejects ==
    last.op = "hash" /\ WindowInvalid =>
        /\ last.out \in {"raise", "error"}
        /\ Post = Pre

\* hash("tremby", maxy=1.1) on black: accepted, and the colour is changed
C28_Witness ==
    /\ last.op = "hash" /\ WindowInvalid
    /\ last.n = 1 /\ last.a[6] = Rat(11, 10)
    /\ Pre = Black
    /\ last.out = "self" /\ Post # Pre
====
